---- MODULE Spec2Model ----
(***************************************************************************)
(* A model of the context-resolver provider engine.                        *)
(*                                                                         *)
(* Spec      : the resolution cache of a provider (resolve, mount,         *)
(*             complete, dispose, TTL expiry) as an interleaving of the    *)
(*             synchronous segments between two awaits.                    *)
(* GraphSpec : the graph rewrites (clone, mock, isolate) over a heap of    *)
(*             provider objects.                                           *)
(***************************************************************************)
EXTENDS Integers, Sequences, FiniteSets, TLC

\* ------------------------------------------------------------------ bounds
\* Host calls (resolve, mount, complete, dispose) and timer expiries in one
\* behaviour.
MaxOps == 3
\* Providers the host creates before it rewrites the graph.
MaxNodes == 3
\* Providers handed to group(...).
MaxList == 2
\* Calls of a group by the host.
MaxBuilds == 2
\* Providers with a lifecycle the host creates or derives, and resolutions of
\* them it starts.
MaxHooked == 3
MaxResolutions == 2
\* Hooks the host registers with onStart / onStop, and providers it creates
\* before it does.
MaxHostHooks == 2
MaxMembers == 2
\* Resolutions of the single-slot provider the host starts.
MaxSlotCalls == 3
\* Providers the host derives with builder methods, and calls that touch a
\* cache it makes on them.
MaxBuilt == 3
MaxCacheCalls == 2
\* Groups the host makes, providers it makes them of, and the longest
\* argument list of group(...) and of add(...).
MaxGroups == 3
MaxProviders == 3
MaxGiven == 2
\* Resolutions in flight at once, and the direct dependencies of the provider
\* a resolution is of.
MaxJoins == 2
MaxDeps == 3

\* ------------------------------------------------------------- cache: data
None == "none"
SINGLETON_CACHE_KEY == "singleton"
Keys == {SINGLETON_CACHE_KEY, "other"}

\* The provider of the cache scenario is P = provide("P").using(D).by(...);
\* D has no default cache key and is only ever resolved as P's dependency.
dependencies == <<"D">>

\* CachingOpts the host passes with a call; NoOpts is an absent argument.
NoOpts == [disposer |-> FALSE, ttl |-> 0]
CachingOpts == {NoOpts}

VARIABLES
    defaultCacheKey,   \* key or None                    (opts.defaultCacheKey)
    defaultCacheTTL,   \* ttl, 0 = unset                 (opts.defaultCacheTTL)
    disposer,          \* P has a default disposer       (opts.disposer)
    res,               \* the promises somebody still holds, each with the
                       \* cached-resolution closure (key, disposer, timer) it
                       \* got when it was cached; a slot nobody holds is free
    cache,             \* [key -> slot of res, 0 = absent]      (cache.map)
    tasks,             \* the calls in flight: dispose() of an entry, a timer
                       \* callback, mount, complete
    ops,               \* host calls and timer expiries so far
    expect,            \* history: what resolve / mount / complete last found
                       \* or put under a key, 0 once anything else acts on it
    lastCall,          \* history: the call of resolve made in the last step
    lastDone,          \* history: the mount / complete that cached in it
    lastDisp,          \* history: the disposal that ended in it
    heap,              \* GraphSpec: the provider objects
    graph              \* GraphSpec: the operation applied and its result

cvars == <<defaultCacheKey, defaultCacheTTL, disposer, res, cache, tasks,
           ops, expect, lastCall, lastDone, lastDisp>>
gvars == <<heap, graph>>
vars == <<cvars, gvars>>

NoCall == [called |-> FALSE, k |-> None, prevSt |-> None, prevSrc |-> None,
           same |-> FALSE, fresh |-> FALSE]
NoDone == [op |-> None, hadOld |-> FALSE, oldDisposer |-> FALSE,
           oldDinv |-> 0, oldDcount |-> 0, oldGone |-> FALSE]
NoDisp == [end |-> None, kind |-> None, st |-> None, cached |-> FALSE,
           userDisposer |-> FALSE]

Pending(st) == st \in {"gathering", "running"}

\* A promise: who made it, its state, how often the resolver ran for it
\* and, once cached, how often its disposal was started (dcount) and the user
\* disposer was called with its instance (dinv).
NewRes(src, st, inv) ==
    [src |-> src, st |-> st, inv |-> inv, key |-> None, disposer |-> FALSE,
     timer |-> "none", dinv |-> 0, dcount |-> 0]
Free == NewRes("free", "free", 0)

\* Every host call makes at most one promise.
Slots == 1..MaxOps

\* The mutable state as one value; the operations below map it to the next.
\* The lastX histories describe the step just taken and nothing older.
State == [res |-> res, cache |-> cache, tasks |-> tasks, expect |-> expect,
          lastCall |-> NoCall, lastDone |-> NoDone, lastDisp |-> NoDisp,
          ret |-> 0]

\* ------------------------------------------- promises nobody holds any more
Running(t) == t.pc \notin {"done", "failed"}

Held(s) ==
    {s.cache[k] : k \in Keys} \cup {s.expect[k] : k \in Keys}
    \cup {s.tasks[t].e : t \in 1..Len(s.tasks)}
    \cup {s.tasks[t].new : t \in 1..Len(s.tasks)}
    \cup {r \in Slots : s.res[r].timer = "armed"}
    \cup {r \in Slots : Pending(s.res[r].st)}

\* Settled calls are dropped, and so are promises that nothing refers to.
Collect(s) ==
    LET s1 == [s EXCEPT !.tasks = SelectSeq(@, Running)]
        H  == Held(s1)
    IN  [s1 EXCEPT !.res = [r \in Slots |-> IF r \in H THEN @[r] ELSE Free]]

Commit(s) ==
    LET n == Collect(s)
    IN  /\ res' = n.res
        /\ cache' = n.cache
        /\ tasks' = n.tasks
        /\ expect' = n.expect
        /\ lastCall' = n.lastCall
        /\ lastDone' = n.lastDone
        /\ lastDisp' = n.lastDisp
        /\ UNCHANGED <<defaultCacheKey, defaultCacheTTL, disposer>>
        /\ UNCHANGED gvars

\* Something other than resolve acts on the keys ks.
Untouch(s, ks) ==
    [s EXCEPT !.expect = [k \in Keys |-> IF k \in ks THEN 0 ELSE @[k]]]

\* A new promise takes the first free slot.
NewPromise(s, rec) ==
    LET r == CHOOSE i \in Slots :
                 /\ s.res[i] = Free
                 /\ \A j \in Slots : j < i => s.res[j] # Free
    IN  [s EXCEPT !.res[r] = rec, !.ret = r]

\* ------------------------------------------------------ cache: operations
\* createResolutionCache.set with createCachedResolution: the entry keeps the
\* user disposer inside its entry cleaner and arms a timer when a ttl is set
\* (the cleaner itself is always there, so the ttl alone decides).
createCachedResolution(s, key, r, userDisposer, ttl) ==
    [s EXCEPT
        !.res[r] = [@ EXCEPT !.key = key, !.disposer = userDisposer,
                             !.timer = IF ttl # 0 THEN "armed" ELSE "none"],
        !.cache[key] = r]

cacheResolution_Dropped(s, key, r, cacheOpts) ==
    IF s.res[r].src = "resolve" /\ key # SINGLETON_CACHE_KEY THEN s
    ELSE createCachedResolution(s, key, r,
             cacheOpts.disposer \/ disposer,
             IF cacheOpts.ttl # 0 THEN cacheOpts.ttl ELSE defaultCacheTTL)

cacheResolution(s, key, r, cacheOpts) ==
    createCachedResolution(s, key, r,
        cacheOpts.disposer \/ disposer,
        IF cacheOpts.ttl # 0 THEN cacheOpts.ttl ELSE defaultCacheTTL)

\* resolver(await group(...dependencies)()): the dependencies are requested
\* now, the resolver runs in a later segment (InvokeResolver). The promise of
\* the awaited group is private to this resolution (a dependency is called
\* with no key and D has no default key), so it is kept inside the new
\* promise: "gathering" until the group resolves or rejects.
resolveWithDependencies(s) ==
    NewPromise(s, NewRes("resolve", "gathering", 0))

resolve_NoDefault(s, cacheKey, cacheOpts) ==
    IF cacheKey # None
    THEN IF s.cache[cacheKey] # 0
         THEN [s EXCEPT !.ret = s.cache[cacheKey]]
         ELSE LET s1 == resolveWithDependencies(s)
              IN  cacheResolution(s1, cacheKey, s1.ret, cacheOpts)
    ELSE resolveWithDependencies(s)

resolve_Unshared(s, cacheKey, cacheOpts) ==
    LET key == IF cacheKey # None THEN cacheKey ELSE defaultCacheKey
    IN  IF key # None
        THEN IF s.cache[key] # 0 /\ ~Pending(s.res[s.cache[key]].st)
             THEN [s EXCEPT !.ret = s.cache[key]]
             ELSE LET s1 == resolveWithDependencies(s)
                  IN  cacheResolution(s1, key, s1.ret, cacheOpts)
        ELSE resolveWithDependencies(s)

resolve(s, cacheKey, cacheOpts) ==
    LET key == IF cacheKey # None THEN cacheKey ELSE defaultCacheKey
    IN  IF key # None
        THEN IF s.cache[key] # 0
             THEN [s EXCEPT !.ret = s.cache[key]]
             ELSE LET s1 == resolveWithDependencies(s)
                  IN  cacheResolution(s1, key, s1.ret, cacheOpts)
        ELSE resolveWithDependencies(s)

NoGraph == [op |-> None, list |-> <<>>, result |-> <<>>, before |-> 0,
            extra |-> 0]
GIdle == heap = <<>> /\ graph = NoGraph

\* P.persisted(cacheKey), also called once and singleton: the default key of
\* the derived provider.
persisted(cacheKey) ==
    IF cacheKey # None THEN cacheKey ELSE SINGLETON_CACHE_KEY

\* P is a plain provider or one derived by persisted.
CInit ==
    /\ defaultCacheKey \in {None} \cup {persisted(k) : k \in Keys \cup {None}}
    /\ defaultCacheTTL \in {0, 1}
    /\ disposer \in BOOLEAN
    /\ res = [r \in Slots |-> Free]
    /\ cache = [k \in Keys |-> 0]
    /\ tasks = <<>>
    /\ ops = 0
    /\ expect = [k \in Keys |-> 0]
    /\ lastCall = NoCall
    /\ lastDone = NoDone
    /\ lastDisp = NoDisp

\* The host calls P(cacheKey, cacheOpts).
Resolve(cacheKey, cacheOpts) ==
    /\ ops < MaxOps
    /\ ops' = ops + 1
    /\ LET key  == IF cacheKey # None THEN cacheKey ELSE defaultCacheKey
           s    == resolve(State, cacheKey, cacheOpts)
           prev == IF key = None THEN 0 ELSE expect[key]
       IN  Commit([s EXCEPT
               !.lastCall = [called |-> TRUE, k |-> key,
                             prevSt |-> IF prev = 0 THEN None ELSE res[prev].st,
                             prevSrc |-> IF prev = 0 THEN None ELSE res[prev].src,
                             same |-> s.ret = prev,
                             fresh |-> res[s.ret] = Free],
               !.expect = IF key = None THEN @ ELSE [@ EXCEPT ![key] = s.ret]])

\* The awaited group has resolved: the resolver is invoked with the container.
InvokeResolver(r) ==
    /\ res[r].st = "gathering"
    /\ Commit([State EXCEPT !.res[r].st = "running", !.res[r].inv = @ + 1])
    /\ UNCHANGED ops

\* Promise.all of the awaited group rejects: the resolver is never invoked.
DependencyRejected(r) ==
    /\ res[r].st = "gathering"
    /\ dependencies # <<>>
    /\ Commit([State EXCEPT !.res[r].st = "rejected"])
    /\ UNCHANGED ops

Settle_Evict(r, ok) ==
    /\ res[r].st = "running"
    /\ Commit([State EXCEPT
                  !.res[r].st = IF ok THEN "fulfilled" ELSE "rejected",
                  !.cache = [k \in Keys |->
                                IF @[k] = r /\ ~ok THEN 0 ELSE @[k]]])
    /\ UNCHANGED ops

\* The resolver's promise settles: the instance is ready, or it threw.
Settle(r, ok) ==
    /\ res[r].st = "running"
    /\ Commit([State EXCEPT
                  !.res[r].st = IF ok THEN "fulfilled" ELSE "rejected"])
    /\ UNCHANGED ops

\* ---------------------------------------------- cache: disposal of an entry
NewTask(kind, key, cacheOpts) ==
    [kind |-> kind, key |-> key, opts |-> cacheOpts, pc |-> "start",
     missing |-> <<>>, e |-> 0, new |-> 0]

\* stopDisposeTimer of createCachedResolution: clearTimeout on a timer that
\* has not fired yet.
stopDisposeTimer(s, e) ==
    IF s.res[e].timer = "armed" THEN [s EXCEPT !.res[e].timer = "stopped"]
    ELSE s

\* Task t calls the entry cleaner of entry e (made by makeEntryCleaner), from
\* CachedResolution.dispose or from the entry's timer. It first awaits the
\* entry's resolution.
startCleaner(s, t, e) ==
    Untouch([s EXCEPT !.tasks[t].pc = "await_res", !.tasks[t].e = e,
                      !.res[e].dcount = @ + 1],
            {s.res[e].key})

\* CachedResolution.dispose() of entry e, called by task t: the timer is
\* stopped and the cleaner called.
disposeEntry(s, t, e) == startCleaner(stopDisposeTimer(s, e), t, e)

RECURSIVE disposeAll(_, _)
disposeAll(s, es) ==
    IF es = <<>> THEN s
    ELSE disposeAll(
             disposeEntry([s EXCEPT !.tasks = Append(@,
                               NewTask("dispose", s.res[Head(es)].key, NoOpts))],
                          Len(s.tasks) + 1, Head(es)),
             Tail(es))

\* cache.all(): the entries, in the order of the keys.
RECURSIVE SeqOfSet(_)
SeqOfSet(S) ==
    IF S = {} THEN <<>>
    ELSE LET x == CHOOSE y \in S : \A z \in S : y <= z
         IN  <<x>> \o SeqOfSet(S \ {x})
all(s) == SeqOfSet({s.cache[k] : k \in Keys} \ {0})

\* P.dispose(cacheKey) as far as its await.
dispose(s, cacheKey) ==
    IF cacheKey # None
    THEN disposeAll(s, IF s.cache[cacheKey] # 0 THEN <<s.cache[cacheKey]>>
                       ELSE <<>>)
    ELSE disposeAll(s, all(s))

Dispose(cacheKey) ==
    /\ ops < MaxOps
    /\ ops' = ops + 1
    /\ Commit(Untouch(dispose(State, cacheKey),
                      IF cacheKey # None THEN {cacheKey} ELSE Keys))

\* The timer of entry e expires: setTimeout's callback calls the cleaner.
TimerFires(e) ==
    /\ ops < MaxOps
    /\ ops' = ops + 1
    /\ res[e].timer = "armed"
    /\ Commit(startCleaner(
           [State EXCEPT !.res[e].timer = "fired",
                         !.tasks = Append(@, NewTask("timer", res[e].key,
                                                     NoOpts))],
           Len(tasks) + 1, e))

EndOfDisposal(s, t, end) ==
    [end |-> end, kind |-> s.tasks[t].kind, st |-> s.res[s.tasks[t].e].st,
     cached |-> s.cache[s.tasks[t].key] = s.tasks[t].e,
     userDisposer |-> s.res[s.tasks[t].e].disposer]

\* makeEntryCleaner, first half: the resolution resolved, the cleaner is
\* called with the instance and calls the user disposer, if there is one.
InvokeDisposer(t) ==
    /\ tasks[t].pc = "await_res"
    /\ res[tasks[t].e].st = "fulfilled"
    /\ Commit(Untouch([State EXCEPT
                  !.tasks[t].pc = "disposing",
                  !.res[tasks[t].e].dinv =
                      IF res[tasks[t].e].disposer THEN @ + 1 ELSE @],
              {tasks[t].key}))
    /\ UNCHANGED ops

\* makeEntryCleaner, second half: the user disposer returned, the key is
\* deleted from the map; a mount / complete that awaits goes on later.
makeEntryCleaner(s, t) ==
    LET s1 == [s EXCEPT
                  !.tasks[t].pc = IF s.tasks[t].kind \in {"mount", "complete"}
                                  THEN "disposed" ELSE "done",
                  !.cache[s.tasks[t].key] = 0]
    IN  Untouch([s1 EXCEPT !.lastDisp = EndOfDisposal(s1, t, "done")],
                {s.tasks[t].key})

DisposerReturns(t) ==
    /\ tasks[t].pc = "disposing"
    /\ Commit(makeEntryCleaner(State, t))
    /\ UNCHANGED ops

\* The disposal rejects before the delete; an awaiting mount / complete
\* rejects with it.
disposalFailed(s, t) ==
    LET s1 == [s EXCEPT !.tasks[t].pc = "failed"]
    IN  Untouch([s1 EXCEPT !.lastDisp = EndOfDisposal(s, t, "failed")],
                {s.tasks[t].key})

\* The user disposer threw or rejected: the cleaner stops before the delete.
DisposerFails(t) ==
    /\ tasks[t].pc = "disposing"
    /\ res[tasks[t].e].disposer
    /\ Commit(disposalFailed(State, t))
    /\ UNCHANGED ops

\* await opts.resolution throws in dispose(): the cleaner is never called.
DisposalRejected(t) ==
    /\ tasks[t].pc = "await_res"
    /\ res[tasks[t].e].st = "rejected"
    /\ Commit(disposalFailed(State, t))
    /\ UNCHANGED ops

\* -------------------------------------------- cache: mount and complete
awaitDispose_Skipped(s, t) ==
    [s EXCEPT !.tasks[t].pc = "await_none",
              !.tasks[t].e = s.cache[s.tasks[t].key]]

\* await cache.get(cacheKey)?.dispose() as far as its first await.
awaitDispose(s, t) ==
    LET e == s.cache[s.tasks[t].key]
    IN  IF e # 0 THEN disposeEntry(s, t, e)
        ELSE [s EXCEPT !.tasks[t].pc = "await_none"]

\* P.mount(instance, cacheKey, cacheOpts) as far as its await.
mount(s, cacheKey, cacheOpts) ==
    awaitDispose([s EXCEPT !.tasks = Append(@, NewTask("mount", cacheKey,
                                                       cacheOpts))],
                 Len(s.tasks) + 1)

Mount(cacheKey, cacheOpts) ==
    /\ ops < MaxOps
    /\ ops' = ops + 1
    /\ Commit(Untouch(mount(State, cacheKey, cacheOpts), {cacheKey}))

\* P.complete(resolvedPart, cacheKey, cacheOpts) as far as its first await;
\* given is the set of dependencies that are keys of resolvedPart.
complete(s, given, cacheKey, cacheOpts) ==
    LET key == IF cacheKey # None THEN cacheKey ELSE defaultCacheKey
        missingDependencies ==
            SelectSeq(dependencies, LAMBDA q : q \notin given)
    IN  [s EXCEPT !.tasks = Append(@,
            [NewTask("complete", key, cacheOpts)
                EXCEPT !.pc = "await_deps", !.missing = missingDependencies])]

Complete(given, cacheKey, cacheOpts) ==
    /\ ops < MaxOps
    /\ ops' = ops + 1
    /\ LET key == IF cacheKey # None THEN cacheKey ELSE defaultCacheKey
       IN  Commit(Untouch(complete(State, given, cacheKey, cacheOpts),
                          IF key = None THEN {} ELSE {key}))

\* complete after its first await: the resolver is invoked with the merged
\* container, then the old entry under the key is disposed of.
CompleteInvoke(t) ==
    /\ tasks[t].pc = "await_deps"
    /\ LET s0 == NewPromise(State, NewRes("complete", "running", 1))
           s1 == [s0 EXCEPT !.tasks[t].new = s0.ret]
           s  == IF tasks[t].key # None THEN awaitDispose(s1, t)
                 ELSE [s1 EXCEPT !.tasks[t].pc = "done"]
       IN  Commit(Untouch(s, IF tasks[t].key = None THEN {}
                             ELSE {tasks[t].key}))
    /\ UNCHANGED ops

\* complete: a missing dependency rejected, the call rejects.
CompleteRejected(t) ==
    /\ tasks[t].pc = "await_deps"
    /\ tasks[t].missing # <<>>
    /\ Commit([State EXCEPT !.tasks[t].pc = "failed"])
    /\ UNCHANGED ops

\* mount / complete after await ...dispose(): the new resolution is cached.
cacheAfterDispose(s, t) ==
    LET k   == s.tasks[t].key
        old == s.tasks[t].e
        s1  == IF s.tasks[t].kind = "mount"
               THEN NewPromise(s, NewRes("mount", "fulfilled", 0))
               ELSE [s EXCEPT !.ret = s.tasks[t].new]
        s2  == cacheResolution(s1, k, s1.ret, s.tasks[t].opts)
    IN  [s2 EXCEPT
            !.tasks[t].pc = "done",
            !.expect[k] = s1.ret,
            !.lastDone = [op |-> s.tasks[t].kind,
                          hadOld |-> old # 0,
                          oldDisposer |-> old # 0 /\ s.res[old].disposer,
                          oldDinv |-> IF old = 0 THEN 0 ELSE s.res[old].dinv,
                          oldDcount |-> IF old = 0 THEN 0 ELSE s.res[old].dcount,
                          oldGone |-> old = 0 \/ s.cache[k] # old]]

CacheAfterDispose(t) ==
    /\ tasks[t].kind \in {"mount", "complete"}
    /\ tasks[t].pc \in {"await_none", "disposed"}
    /\ Commit(cacheAfterDispose(State, t))
    /\ UNCHANGED ops

Next ==
    \/ \E k \in Keys \cup {None}, o \in CachingOpts : Resolve(k, o)
    \/ \E r \in Slots : InvokeResolver(r)
    \/ \E r \in Slots : DependencyRejected(r)
    \/ \E r \in Slots, ok \in BOOLEAN : Settle(r, ok)
    \/ \E k \in Keys \cup {None} : Dispose(k)
    \/ \E e \in Slots : TimerFires(e)
    \/ \E t \in 1..Len(tasks) : InvokeDisposer(t)
    \/ \E t \in 1..Len(tasks) : DisposerReturns(t)
    \/ \E t \in 1..Len(tasks) : DisposerFails(t)
    \/ \E t \in 1..Len(tasks) : DisposalRejected(t)
    \/ \E k \in Keys, o \in CachingOpts : Mount(k, o)
    \/ \E g \in SUBSET {"D"}, k \in Keys \cup {None}, o \in CachingOpts :
          Complete(g, k, o)
    \/ \E t \in 1..Len(tasks) : CompleteInvoke(t)
    \/ \E t \in 1..Len(tasks) : CompleteRejected(t)
    \/ \E t \in 1..Len(tasks) : CacheAfterDispose(t)

Init == CInit /\ GIdle

Spec == Init /\ [][Next]_vars

\* ================================================== cache: the properties
\* C1: resolutions issued with one key while the first is still in flight
\* all receive that one in-flight resolution and start nothing new, and the
\* resolver runs at most once for a resolution and exactly once for one that
\* was fulfilled; a resolution issued with no key, or with a key that has no
\* entry, starts a resolution of its own.
C1_ConcurrentResolvesShareOne ==
    /\ (lastCall.called /\ Pending(lastCall.prevSt))
           => (lastCall.same /\ ~lastCall.fresh)
    /\ (lastCall.called /\ lastCall.k = None) => lastCall.fresh
    /\ (lastCall.called /\ lastCall.k # None /\ lastCall.fresh)
           => /\ cache[lastCall.k] = expect[lastCall.k]
              /\ res[cache[lastCall.k]].st = "gathering"
              /\ res[cache[lastCall.k]].inv = 0
    /\ \A r \in Slots : /\ res[r].inv <= 1
                        /\ res[r].st = "gathering" => res[r].inv = 0
                        /\ (res[r].src = "resolve" /\ res[r].st = "fulfilled")
                               => res[r].inv = 1

C1_Witness ==
    /\ lastCall.called
    /\ Pending(lastCall.prevSt)
    /\ lastCall.same
    /\ \E r \in Slots : r # expect[lastCall.k] /\ res[r].src = "resolve"
                        /\ res[r].key = None /\ res[r].inv = 1

\* C2: a resolve with a key whose last resolve returned an instance, with no
\* disposal, timer expiry, mount or complete on that key in between, returns
\* that same instance and starts nothing; entries under different keys are
\* different resolutions, each filed under its own key.
C2_SettledEntryIsReturned ==
    /\ (lastCall.called /\ lastCall.prevSt = "fulfilled")
           => (lastCall.same /\ ~lastCall.fresh)
    /\ \A k1, k2 \in Keys :
           (k1 # k2 /\ cache[k1] # 0) => cache[k1] # cache[k2]
    /\ \A k \in Keys : cache[k] # 0 => res[cache[k]].key = k

C2_Witness ==
    /\ lastCall.called
    /\ lastCall.prevSt = "fulfilled"
    /\ lastCall.prevSrc = "resolve"
    /\ lastCall.same
    /\ \E k \in Keys : k # lastCall.k /\ cache[k] # 0
                       /\ res[cache[k]].inv = 1

\* C3: when mount or complete caches under a key that was occupied at the
\* call, and no other disposal of the old entry overlapped, the old entry's
\* user disposer has been invoked exactly once with the old instance and the
\* old entry is out of the map before the new one goes in; from then on a
\* resolve with that key returns the new resolution.
C3_ReplaceDisposesOldFirst ==
    /\ (lastDone.hadOld /\ lastDone.oldDcount <= 1)
           => /\ lastDone.oldGone
              /\ lastDone.oldDcount = 1
              /\ lastDone.oldDinv = IF lastDone.oldDisposer THEN 1 ELSE 0
    /\ \A k \in Keys :
           (lastDone.op # None /\ expect[k] # 0
               /\ res[expect[k]].src \in {"mount", "complete"})
           => cache[k] = expect[k]
    /\ (lastCall.called /\ lastCall.prevSrc \in {"mount", "complete"})
           => (lastCall.same /\ ~lastCall.fresh)

C3_Witness ==
    /\ lastDone.op = "mount"
    /\ lastDone.hadOld
    /\ lastDone.oldDisposer
    /\ lastDone.oldDinv = 1
    /\ lastDone.oldGone

\* C4: a rejected resolution stays under its key: while nothing disposes of
\* it, the entry is still the rejected resolution, and a resolve with that key
\* returns it and starts nothing.
C4_RejectedEntryStays ==
    /\ (lastCall.called /\ lastCall.prevSt = "rejected")
           => (lastCall.same /\ ~lastCall.fresh)
    /\ \A k \in Keys :
           (expect[k] # 0 /\ res[expect[k]].st = "rejected")
           => cache[k] = expect[k]

C4_Witness ==
    /\ lastCall.called
    /\ lastCall.prevSt = "rejected"
    /\ lastCall.same
    /\ res[expect[lastCall.k]].inv = 1

\* C5: dispose(k) of an entry whose resolution rejected removes the entry.
C5_DisposeRemovesRejected ==
    (lastDisp.kind = "dispose" /\ lastDisp.st = "rejected")
        => (lastDisp.end = "done" /\ ~lastDisp.cached)

\* C6: a disposal whose user disposer failed still removes the entry.
C6_FailedDisposerStillRemoves ==
    (lastDisp.end = "failed" /\ lastDisp.st = "fulfilled"
        /\ lastDisp.userDisposer)
        => ~lastDisp.cached

\* C17: when the timer of an entry stored with a TTL has expired and the
\* disposal it started has ended, the disposal went through (the user
\* disposer, if there is one, was called with the instance) and the entry is
\* no longer in the map.
C17_ExpiryDisposesAndRemoves ==
    lastDisp.kind = "timer" =>
        /\ lastDisp.end = "done"
        /\ ~lastDisp.cached


\* C18: when the disposal that dispose(k) or dispose() started for an entry
\* has ended, it went through (the disposer of the entry was called) and the
\* entry is no longer in the map.
C18_DisposeRemovesItsEntry ==
    lastDisp.kind = "dispose" =>
        /\ lastDisp.end = "done"
        /\ ~lastDisp.cached

\* ============================================ the graph rewrites (GraphSpec)
\* heap holds the provider objects in the order of their creation; a provider
\* is its index. The resolver of a provider is named by the id of the provider
\* that was given it with by(), "phony" is makePhonyResolver.
Letters == <<"a", "b", "c", "d", "e", "f", "g", "h">>
Ids == {Letters[i] : i \in 1..(MaxNodes + 1)}
Phony == "phony"

\* unique(xs): Array.from(new Set(xs)), the first occurrences in order.
RECURSIVE unique(_)
unique(xs) ==
    IF xs = <<>> THEN <<>>
    ELSE LET init == unique(SubSeq(xs, 1, Len(xs) - 1))
             x    == xs[Len(xs)]
         IN  IF \E j \in 1..Len(init) : init[j] = x THEN init
             ELSE Append(init, x)

\* The state of a traversal: the heap, the WeakMap of the clone resolver, the
\* value returned and the values returned by a map over a list.
Traversal(h) == [heap |-> h, memo |-> <<>>, ret |-> 0, rets |-> <<>>]

\* An instance is known by the provider that made it and the number of the
\* resolution that made it; what it is worth is Output of that provider.
NoInstance == [by |-> 0, n |-> 0, out |-> <<>>]

\* createProvider(id, {dependencies, resolver}): a new object, with a cache of
\* its own (createResolutionCache()); invoked counts the resolutions it
\* started, each of which invokes its resolver once.
createProvider(g, id, deps, resolver) ==
    [g EXCEPT !.heap = Append(@, [id |-> id, dependencies |-> unique(deps),
                                  resolver |-> resolver,
                                  cache |-> [k \in Keys |-> NoInstance],
                                  invoked |-> 0]),
              !.ret = Len(g.heap) + 1]

\* provider.clone()
clone(g, p) ==
    createProvider(g, g.heap[p].id, g.heap[p].dependencies,
                   g.heap[p].resolver)

\* Object.fromEntries(mockProviders.map(p => [p.id, p])): the last provider
\* with an id wins; 0 where no provider has the id.
mockMapOf(h, mockProviders) ==
    [i \in Ids |->
        LET js == {j \in 1..Len(mockProviders) : h[mockProviders[j]].id = i}
        IN  IF js = {} THEN 0
            ELSE mockProviders[CHOOSE j \in js : \A j2 \in js : j2 <= j]]

resolveMock_DirectOnly(g, mockMap, p) ==
    [g EXCEPT !.ret = IF mockMap[g.heap[p].id] # 0
                      THEN mockMap[g.heap[p].id] ELSE p]

\* createProviderMockResolver(mockMap) and provider.mock(...mockProviders),
\* which calls it on the provider's dependencies.
RECURSIVE resolveMock(_, _, _)
RECURSIVE mapResolveMock(_, _, _)
RECURSIVE mock(_, _, _)
resolveMock(g, mockMap, p) ==
    IF mockMap[g.heap[p].id] # 0
    THEN [g EXCEPT !.ret = mockMap[g.heap[p].id]]
    ELSE IF g.heap[p].dependencies # <<>>
         THEN LET g1 == mapResolveMock(g, mockMap, g.heap[p].dependencies)
              IN  mock(g1, p, g1.rets)
         ELSE [g EXCEPT !.ret = p]

mapResolveMock(g, mockMap, ps) ==
    IF ps = <<>> THEN [g EXCEPT !.rets = <<>>]
    ELSE LET g1 == resolveMock(g, mockMap, Head(ps))
             g2 == mapResolveMock(g1, mockMap, Tail(ps))
         IN  [g2 EXCEPT !.rets = <<g1.ret>> \o g2.rets]

mock(g, p, mockProviders) ==
    LET g1 == mapResolveMock(g, mockMapOf(g.heap, mockProviders),
                             g.heap[p].dependencies)
    IN  createProvider(g1, g.heap[p].id, g1.rets, g.heap[p].resolver)

\* cloneMap.set(provider, cloned)
cloneMapSet_Forgotten(g, p, c) == g

cloneMapSet(g, p, c) == [g EXCEPT !.memo = (p :> c) @@ @]

\* createProviderCloneResolver(): resolveClone with its cloneMap.
RECURSIVE resolveClone(_, _)
RECURSIVE mapResolveClone(_, _)
resolveClone(g, p) ==
    IF p \in DOMAIN g.memo THEN [g EXCEPT !.ret = g.memo[p]]
    ELSE LET g1 == clone(g, p)
             g2 == mapResolveClone(g1, g1.heap[g1.ret].dependencies)
             g3 == IF g1.heap[g1.ret].dependencies # <<>>
                   THEN mock(g2, g1.ret, g2.rets)
                   ELSE g1
         IN  [cloneMapSet(g3, p, g3.ret) EXCEPT !.ret = g3.ret]

mapResolveClone(g, ps) ==
    IF ps = <<>> THEN [g EXCEPT !.rets = <<>>]
    ELSE LET g1 == resolveClone(g, Head(ps))
             g2 == mapResolveClone(g1, Tail(ps))
         IN  [g2 EXCEPT !.rets = <<g1.ret>> \o g2.rets]

\* createGroup(...providers).list
createGroup(providers) == unique(providers)

\* group.isolate()
isolate(h, list) ==
    LET g == mapResolveClone(Traversal(h), list)
    IN  [g EXCEPT !.rets = createGroup(g.rets)]

\* group.mock(...mockProviders)
groupMock(g, list, mockProviders) ==
    LET g1 == mapResolveMock(g, mockMapOf(g.heap, mockProviders), list)
    IN  [g1 EXCEPT !.rets = createGroup(g1.rets)]

\* ---- the variant with user disposers (provider.mock replaces the direct
\* ---- dependencies only, the group has its own clone resolver)
\* provider.mock(...mockProviders): mockProviders.find(mp => mp.id === p.id)
\* || p for every dependency p.
mockDirect(g, p, mockProviders) ==
    LET found(q) == {j \in 1..Len(mockProviders) :
                        g.heap[mockProviders[j]].id = g.heap[q].id}
        deps == g.heap[p].dependencies
    IN  createProvider(g, g.heap[p].id,
            [i \in 1..Len(deps) |->
                IF found(deps[i]) = {} THEN deps[i]
                ELSE mockProviders[CHOOSE j \in found(deps[i]) :
                                      \A j2 \in found(deps[i]) : j <= j2]],
            g.heap[p].resolver)

\* createGroup.createCloneResolver: the clone is stored in the cloneMap before
\* its dependencies are replaced.
RECURSIVE resolveCloneStoredFirst(_, _)
RECURSIVE mapResolveCloneStoredFirst(_, _)
resolveCloneStoredFirst(g, p) ==
    IF p \in DOMAIN g.memo THEN [g EXCEPT !.ret = g.memo[p]]
    ELSE LET g1 == clone(g, p)
             g2 == cloneMapSet(g1, p, g1.ret)
             g3 == mapResolveCloneStoredFirst(g2, g2.heap[g1.ret].dependencies)
         IN  IF g1.heap[g1.ret].dependencies # <<>>
             THEN mockDirect(g3, g1.ret, g3.rets)
             ELSE [g2 EXCEPT !.ret = g1.ret]

mapResolveCloneStoredFirst(g, ps) ==
    IF ps = <<>> THEN [g EXCEPT !.rets = <<>>]
    ELSE LET g1 == resolveCloneStoredFirst(g, Head(ps))
             g2 == mapResolveCloneStoredFirst(g1, Tail(ps))
         IN  [g2 EXCEPT !.rets = <<g1.ret>> \o g2.rets]

\* group.isolate(), group.isolateOne(selector), group.isolateSome(selector)
isolateStoredFirst(h, list) ==
    LET g == mapResolveCloneStoredFirst(Traversal(h), list)
    IN  [g EXCEPT !.rets = createGroup(g.rets)]

\* Object.fromEntries(providers.map(p => [p.id, p])): the group's map.
groupMap(h, providers) == mockMapOf(h, providers)

isolateOne(h, list, id) ==
    LET g == resolveCloneStoredFirst(Traversal(h), groupMap(h, list)[id])
    IN  [g EXCEPT !.rets = <<g.ret>>]

isolateSome(h, list, ids) ==
    LET selectedProviders == [i \in 1..Len(ids) |-> groupMap(h, list)[ids[i]]]
        g == mapResolveCloneStoredFirst(Traversal(h), selectedProviders)
    IN  [g EXCEPT !.rets = createGroup(g.rets)]

\* createGroup.createMockResolver(mockMap) of this variant: the mock for a
\* matching id, a provider with dependencies rebuilt with provider.mock from
\* its rewritten dependencies, a leaf as it is.
RECURSIVE createMockResolver(_, _, _)
RECURSIVE mapCreateMockResolver(_, _, _)
createMockResolver(g, mockMap, p) ==
    IF mockMap[g.heap[p].id] # 0
    THEN [g EXCEPT !.ret = mockMap[g.heap[p].id]]
    ELSE IF g.heap[p].dependencies # <<>>
         THEN LET g1 == mapCreateMockResolver(g, mockMap,
                                              g.heap[p].dependencies)
              IN  mockDirect(g1, p, g1.rets)
         ELSE [g EXCEPT !.ret = p]

mapCreateMockResolver(g, mockMap, ps) ==
    IF ps = <<>> THEN [g EXCEPT !.rets = <<>>]
    ELSE LET g1 == createMockResolver(g, mockMap, Head(ps))
             g2 == mapCreateMockResolver(g1, mockMap, Tail(ps))
         IN  [g2 EXCEPT !.rets = <<g1.ret>> \o g2.rets]

\* group.mock(...mockProviders) of this variant
groupMockDirect(g, list, mockProviders) ==
    LET g1 == mapCreateMockResolver(g, mockMapOf(g.heap, mockProviders), list)
    IN  [g1 EXCEPT !.rets = createGroup(g1.rets)]

\* ---- the variant whose clone resolver rebuilds with using()
\* provider.using(...dependencies): createProvider(id, {...optsToSave,
\* dependencies}), so the new provider has the phony resolver.
using(g, p, deps) == createProvider(g, g.heap[p].id, deps, Phony)

RECURSIVE resolveCloneUsing(_, _)
RECURSIVE mapResolveCloneUsing(_, _)
resolveCloneUsing(g, p) ==
    IF p \in DOMAIN g.memo THEN [g EXCEPT !.ret = g.memo[p]]
    ELSE LET g1 == clone(g, p)
             g2 == cloneMapSet(g1, p, g1.ret)
             g3 == mapResolveCloneUsing(g2, g2.heap[g1.ret].dependencies)
         IN  IF g1.heap[g1.ret].dependencies # <<>>
             THEN using(g3, g1.ret, g3.rets)
             ELSE [g2 EXCEPT !.ret = g1.ret]

mapResolveCloneUsing(g, ps) ==
    IF ps = <<>> THEN [g EXCEPT !.rets = <<>>]
    ELSE LET g1 == resolveCloneUsing(g, Head(ps))
             g2 == mapResolveCloneUsing(g1, Tail(ps))
         IN  [g2 EXCEPT !.rets = <<g1.ret>> \o g2.rets]

isolateUsing(h, list) ==
    LET g == mapResolveCloneUsing(Traversal(h), list)
    IN  [g EXCEPT !.rets = createGroup(g.rets)]

\* ---- what a provider resolves to
\* resolver(await group(...dependencies)()): the resolver applied to the
\* container {id: output} of the dependencies' outputs (a later provider with
\* an id overwrites an earlier one); the phony resolver returns {}.
RECURSIVE Output(_, _)
Output(h, p) ==
    IF h[p].resolver = Phony THEN <<Phony, {}>>
    ELSE LET deps == h[p].dependencies
             last(i) == \A j \in 1..Len(deps) :
                            h[deps[j]].id = h[deps[i]].id => j <= i
         IN  <<h[p].resolver,
               {<<h[deps[i]].id, Output(h, deps[i])>> :
                   i \in {j \in 1..Len(deps) : last(j)}}>>

\* The providers reachable from p through dependencies, p included.
RECURSIVE Reach(_, _)
Reach(h, p) ==
    {p} \cup UNION {Reach(h, h[p].dependencies[i]) :
                       i \in 1..Len(h[p].dependencies)}

\* ---- resolving over the heap
\* provider(cacheKey) and group(...list)(cacheKey), as far as they start
\* resolutions and fill caches, which they do before their first await: a
\* provider answers from its cache or starts a resolution, which calls the
\* group of its dependencies with no key, and caches it under the key.
\* Object.fromEntries over the pairs [p.id, instance of p] of a list: the
\* container, in which a later pair with an id overwrites an earlier one.
fromEntries_Empty(h, list, insts) == {}

fromEntries(h, list, insts) ==
    {<<h[list[i]].id, insts[i].out>> :
        i \in {j \in 1..Len(list) :
                  \A k \in 1..Len(list) : h[list[k]].id = h[list[j]].id => k <= j}}

\* The resolver of p applied to a container; the phony resolver ignores it.
applyResolver(h, p, container) ==
    IF h[p].resolver = Phony THEN <<Phony, {}>>
    ELSE <<h[p].resolver, container>>

RECURSIVE resolveProvider(_, _, _)
RECURSIVE build(_, _, _)
\* cacheKey ??= defaultCacheKey: a provider made with no defaultCacheKey
\* option has none.
keyOrDefault(pr, cacheKey) ==
    IF cacheKey # None THEN cacheKey
    ELSE IF "defaultCacheKey" \in DOMAIN pr THEN pr.defaultCacheKey
    ELSE None

resolveProvider_Fresh(g, p, cacheKey) ==
    LET key  == keyOrDefault(g.heap[p], cacheKey)
        deps == g.heap[p].dependencies
        g1   == build(g, deps, None)
        inst == [by |-> p, n |-> g1.heap[p].invoked + 1,
                 out |-> applyResolver(g.heap, p,
                             fromEntries(g.heap, deps, g1.rets))]
    IN  [g1 EXCEPT !.heap[p].invoked = @ + 1,
                   !.heap[p].cache =
                       IF key # None
                       THEN [@ EXCEPT ![key] = inst] ELSE @,
                   !.ret = inst]

resolveProvider_KeyPassedOn(g, p, cacheKey) ==
    LET key == keyOrDefault(g.heap[p], cacheKey)
    IN  IF key # None /\ g.heap[p].cache[key] # NoInstance
        THEN [g EXCEPT !.ret = g.heap[p].cache[key]]
        ELSE LET deps == g.heap[p].dependencies
                 g1   == build(g, deps, cacheKey)
                 inst == [by |-> p, n |-> g1.heap[p].invoked + 1,
                          out |-> applyResolver(g.heap, p,
                                      fromEntries(g.heap, deps, g1.rets))]
             IN  [g1 EXCEPT !.heap[p].invoked = @ + 1,
                            !.heap[p].cache =
                                IF key # None
                                THEN [@ EXCEPT ![key] = inst] ELSE @,
                            !.ret = inst]

resolveProvider(g, p, cacheKey) ==
    LET key == keyOrDefault(g.heap[p], cacheKey)
    IN  IF key # None /\ g.heap[p].cache[key] # NoInstance
        THEN [g EXCEPT !.ret = g.heap[p].cache[key]]
        ELSE LET deps == g.heap[p].dependencies
                 g1   == build(g, deps, None)
                 inst == [by |-> p, n |-> g1.heap[p].invoked + 1,
                          out |-> applyResolver(g.heap, p,
                                      fromEntries(g.heap, deps, g1.rets))]
             IN  [g1 EXCEPT !.heap[p].invoked = @ + 1,
                            !.heap[p].cache =
                                IF key # None
                                THEN [@ EXCEPT ![key] = inst] ELSE @,
                            !.ret = inst]

build(g, list, cacheKey) ==
    IF list = <<>> THEN [g EXCEPT !.rets = <<>>]
    ELSE LET g1 == resolveProvider(g, Head(list), cacheKey)
             g2 == build(g1, Tail(list), cacheKey)
         IN  [g2 EXCEPT !.rets = <<g1.ret>> \o g2.rets]

\* p.complete(resolvedPart) with no key, over the heap: resolvedPart maps the
\* ids of given to values the caller supplies; the dependencies with another
\* id are resolved as a group with no key, and the resolver is invoked with
\* {...resolvedPart, ...missingPart}. rets holds the missing dependencies.
completeOver_All(g, p, given) ==
    LET g1   == build(g, g.heap[p].dependencies, None)
        inst == [by |-> p, n |-> g1.heap[p].invoked + 1,
                 out |-> applyResolver(g.heap, p,
                             fromEntries(g.heap, g.heap[p].dependencies, g1.rets))]
    IN  [g1 EXCEPT !.heap[p].invoked = @ + 1, !.ret = inst,
                   !.rets = g.heap[p].dependencies]

completeOver(g, p, given) ==
    LET missingDependencies ==
            SelectSeq(g.heap[p].dependencies,
                      LAMBDA q : g.heap[q].id \notin given)
        g1           == build(g, missingDependencies, None)
        resolvedPart == {<<id, <<"given", id>>>> : id \in given}
        missingPart  == fromEntries(g.heap, missingDependencies, g1.rets)
        merged       == {e \in resolvedPart :
                            \A m \in missingPart : m[1] # e[1]}
                        \cup missingPart
        inst == [by |-> p, n |-> g1.heap[p].invoked + 1,
                 out |-> applyResolver(g.heap, p, merged)]
    IN  [g1 EXCEPT !.heap[p].invoked = @ + 1, !.ret = inst,
                   !.rets = missingDependencies]

\* ---- the host
\* Duplicate-free lists of at most n providers out of S.
Lists(S, n) ==
    UNION {{l \in [1..k -> S] : \A i, j \in 1..k : l[i] = l[j] => i = j} :
              k \in 0..n}

GInit ==
    /\ defaultCacheKey = None
    /\ defaultCacheTTL = 0
    /\ disposer = FALSE
    /\ res = [r \in Slots |-> Free]
    /\ cache = [k \in Keys |-> 0]
    /\ tasks = <<>>
    /\ ops = 0
    /\ expect = [k \in Keys |-> 0]
    /\ lastCall = NoCall
    /\ lastDone = NoDone
    /\ lastDisp = NoDisp
    /\ GIdle

\* provide(id).using(...deps), with .by(resolver) or without.
Provide(deps, hasResolver) ==
    /\ graph.op = None
    /\ Len(heap) < MaxNodes
    /\ heap' = createProvider(Traversal(heap), Letters[Len(heap) + 1], deps,
                   IF hasResolver THEN Letters[Len(heap) + 1] ELSE Phony).heap
    /\ UNCHANGED <<graph, cvars>>

\* The result of a rewrite: the operation, the providers it was applied to,
\* the providers it returned and the number of providers there were before.
Rewritten(op, list, g, extra) ==
    /\ heap' = g.heap
    /\ graph' = [op |-> op, list |-> list, result |-> g.rets,
                 before |-> Len(heap), extra |-> extra]
    /\ UNCHANGED cvars

\* group(...list).isolate() of each variant
Isolate(list) ==
    /\ graph.op = None /\ list # <<>>
    /\ Rewritten("isolate", list, isolate(heap, list), 0)

IsolateStoredFirst(list) ==
    /\ graph.op = None /\ list # <<>>
    /\ Rewritten("isolateStoredFirst", list, isolateStoredFirst(heap, list), 0)

IsolateOne(list, id) ==
    /\ graph.op = None
    /\ groupMap(heap, list)[id] # 0
    /\ Rewritten("isolateOne", <<groupMap(heap, list)[id]>>,
                 isolateOne(heap, list, id), 0)

IsolateSome(list, ids) ==
    /\ graph.op = None /\ ids # <<>>
    /\ \A i \in 1..Len(ids) : groupMap(heap, list)[ids[i]] # 0
    /\ Rewritten("isolateSome",
                 [i \in 1..Len(ids) |-> groupMap(heap, list)[ids[i]]],
                 isolateSome(heap, list, ids), 0)

IsolateUsing(list) ==
    /\ graph.op = None /\ list # <<>>
    /\ Rewritten("isolateUsing", list, isolateUsing(heap, list), 0)

\* p.mock(provide(id).by(...)): the mock provider is new and has no
\* dependencies.
Mock(p, id) ==
    /\ graph.op = None
    /\ LET g0 == createProvider(Traversal(heap), id, <<>>, "mock")
           g  == mock(g0, p, <<g0.ret>>)
       IN  Rewritten("mock", <<p>>, [g EXCEPT !.rets = <<g.ret>>], g0.ret)

\* provide(id).by(...) for every id of ids: mock providers, each new, with
\* a resolver of its own and no dependencies.
RECURSIVE provideMocks(_, _)
provideMocks(g, ids) ==
    IF ids = <<>> THEN [g EXCEPT !.rets = <<>>]
    ELSE LET g1 == createProvider(g, Head(ids), <<>>, "mock " \o Head(ids))
             g2 == provideMocks(g1, Tail(ids))
         IN  [g2 EXCEPT !.rets = <<g1.ret>> \o g2.rets]

\* p.mock(...mocks) with several mocks, of the variant that rewrites the whole
\* context and of the variant that rewrites the direct dependencies.
MockSome(p, ids) ==
    /\ graph.op = None /\ ids # <<>>
    /\ LET g0 == provideMocks(Traversal(heap), ids)
           g  == mock(g0, p, g0.rets)
       IN  Rewritten("mockSome", <<p>>, [g EXCEPT !.rets = <<g.ret>>], g0.rets)

MockDirect(p, ids) ==
    /\ graph.op = None /\ ids # <<>>
    /\ LET g0 == provideMocks(Traversal(heap), ids)
           g  == mockDirect(g0, p, g0.rets)
       IN  Rewritten("mockDirect", <<p>>, [g EXCEPT !.rets = <<g.ret>>],
                     g0.rets)

\* group(...list).mock(...mocks) of the two variants
GroupMock(list, ids) ==
    /\ graph.op = None /\ list # <<>> /\ ids # <<>>
    /\ LET g0 == provideMocks(Traversal(heap), ids)
       IN  Rewritten("groupMock", list, groupMock(g0, list, g0.rets), g0.rets)

GroupMockDirect(list, ids) ==
    /\ graph.op = None /\ list # <<>> /\ ids # <<>>
    /\ LET g0 == provideMocks(Traversal(heap), ids)
       IN  Rewritten("groupMockDirect", list,
                     groupMockDirect(g0, list, g0.rets), g0.rets)

\* The host resolves, with no key, a provider that a rewrite returned.
ResolveResult(i) ==
    /\ graph.op \notin {None, "resolved", "build", "complete"}
    /\ i \in 1..Len(graph.result)
    /\ LET g == resolveProvider(Traversal(heap), graph.result[i], None)
       IN  /\ heap' = g.heap
           /\ graph' = [op |-> "resolved", list |-> <<graph.result[i]>>,
                        result |-> <<g.ret>>, before |-> graph.before,
                        extra |-> graph]
    /\ UNCHANGED cvars

\* await group(...list)(cacheKey) by the host, at most MaxBuilds times: the
\* instances of the members and the container the call returns.
Build(list, cacheKey) ==
    /\ graph.op \in {None, "build"}
    /\ graph.op = "build" => graph.extra.n < MaxBuilds
    /\ LET g == build(Traversal(heap), list, cacheKey)
       IN  /\ heap' = g.heap
           /\ graph' = [op |-> "build", list |-> list, result |-> g.rets,
                        before |-> Len(heap),
                        extra |-> [n |-> IF graph.op = "build"
                                         THEN graph.extra.n + 1 ELSE 1,
                                   key |-> cacheKey,
                                   container |-> fromEntries(heap, list, g.rets),
                                   last |-> graph,
                                   invoked |-> [p \in 1..Len(heap) |->
                                                   heap[p].invoked]]]
    /\ UNCHANGED cvars

\* await p.complete(resolvedPart) by the host, on a graph nothing of which has
\* been resolved yet: list is the dependencies it resolved.
CompleteOver(p, given) ==
    /\ graph.op = None
    /\ LET g == completeOver(Traversal(heap), p, given)
       IN  /\ heap' = g.heap
           /\ graph' = [op |-> "complete", list |-> g.rets,
                        result |-> <<g.ret>>, before |-> Len(heap),
                        extra |-> [p |-> p, given |-> given]]
    /\ UNCHANGED cvars

\* The providers the host can name, while the graph is not yet rewritten.
Created == IF graph.op \in {None, "build"} THEN 1..Len(heap) ELSE {}

GNext ==
    \/ \E deps \in Lists(Created, MaxNodes), r \in BOOLEAN : Provide(deps, r)
    \/ \E list \in Lists(Created, MaxList) : Isolate(list)
    \/ \E list \in Lists(Created, MaxList) : IsolateStoredFirst(list)
    \/ \E list \in Lists(Created, MaxList), id \in Ids : IsolateOne(list, id)
    \/ \E list \in Lists(Created, MaxList), ids \in Lists(Ids, MaxList) :
          IsolateSome(list, ids)
    \/ \E list \in Lists(Created, MaxList) : IsolateUsing(list)
    \/ \E p \in Created, id \in Ids : Mock(p, id)
    \/ \E p \in Created, ids \in Lists(Ids, MaxList) : MockSome(p, ids)
    \/ \E p \in Created, ids \in Lists(Ids, MaxList) : MockDirect(p, ids)
    \/ \E list \in Lists(Created, MaxList), ids \in Lists(Ids, MaxList) :
          GroupMock(list, ids)
    \/ \E list \in Lists(Created, MaxList), ids \in Lists(Ids, MaxList) :
          GroupMockDirect(list, ids)
    \/ \E i \in 1..MaxList : ResolveResult(i)
    \/ \E list \in Lists(Created, MaxList), k \in Keys \cup {None} :
          Build(list, k)
    \/ \E p \in Created, given \in SUBSET Ids : CompleteOver(p, given)

GraphSpec == GInit /\ [][GNext]_vars

\* ============================================ graph rewrites: the properties
\* The pairs (original, counterpart) met when the original graph is walked
\* from o and the rewritten one from n in step.
RECURSIVE Pairs(_, _, _)
Pairs(h, o, n) ==
    {<<o, n>>} \cup
    UNION {Pairs(h, h[o].dependencies[i], h[n].dependencies[i]) :
              i \in (1..Len(h[o].dependencies)) \cap (1..Len(h[n].dependencies))}

ResultPairs ==
    UNION {Pairs(heap, graph.list[i], graph.result[i]) :
              i \in (1..Len(graph.list)) \cap (1..Len(graph.result))}

\* C7: group.isolate() returns as many members, with the same ids in the same
\* order; every node of the result has the id and as many dependencies as the
\* original in its place, so the same dependency ids in the same order; every
\* original provider has one single replacement wherever it occurs, as a member
\* or as a dependency, and that replacement is a new provider.
C7_IsolateKeepsShapeAndSharing ==
    graph.op = "isolate" =>
        /\ Len(graph.result) = Len(graph.list)
        /\ \A pr \in ResultPairs :
               /\ heap[pr[2]].id = heap[pr[1]].id
               /\ Len(heap[pr[2]].dependencies) = Len(heap[pr[1]].dependencies)
               /\ pr[1] <= graph.before
               /\ pr[2] > graph.before
        /\ \A pr1, pr2 \in ResultPairs : pr1[1] = pr2[1] => pr1[2] = pr2[2]

C7_Witness ==
    /\ graph.op = "isolate"
    /\ Len(graph.list) = 2
    /\ heap[graph.list[1]].dependencies # <<>>
    /\ heap[graph.list[2]].dependencies = <<graph.list[1]>>
    /\ heap[graph.result[2]].dependencies = <<graph.result[1]>>

\* C8: no provider of the original graph is reachable from what isolate,
\* isolateOne or isolateSome of the group with its own clone resolver return.
C8_NoOriginalReachable ==
    graph.op \in {"isolateStoredFirst", "isolateOne", "isolateSome"} =>
        \A i \in 1..Len(graph.result) :
            Reach(heap, graph.result[i]) \cap (1..graph.before) = {}

\* C9: a provider obtained by isolation, in any of the variants, resolves to
\* the same output as its original.
C9_IsolatedOutputIsTheSame ==
    graph.op \in {"isolate", "isolateStoredFirst", "isolateOne", "isolateSome",
                  "isolateUsing"} =>
        \A i \in 1..Len(graph.result) :
            Output(heap, graph.result[i]) = Output(heap, graph.list[i])

\* What p resolves to when every dependency with the id of m, at any depth,
\* is resolved by m instead.
RECURSIVE OutputMocked(_, _, _)
OutputMocked(h, p, m) ==
    IF h[p].resolver = Phony THEN <<Phony, {}>>
    ELSE LET deps == h[p].dependencies
         IN  <<h[p].resolver,
               {<<h[deps[i]].id,
                  IF h[deps[i]].id = h[m].id THEN Output(h, m)
                  ELSE OutputMocked(h, deps[i], m)>> : i \in 1..Len(deps)}>>

\* C10: in the result of P.mock(m) the only provider with the id of m below
\* the root is m itself, at any depth; every other node of the result has the
\* id, the resolver and as many dependencies as the original in its place, and
\* is a new provider when m was put in somewhere below it; the result
\* resolves to what P resolves to with m's output at the replaced positions.
C10_MockReplacesTransitively ==
    graph.op = "mock" =>
        LET p == graph.list[1]
            r == graph.result[1]
            m == graph.extra
        IN  /\ \A n \in Reach(heap, r) \ {r} : heap[n].id = heap[m].id => n = m
            /\ \A pr \in Pairs(heap, p, r) :
                   IF pr[1] # p /\ heap[pr[1]].id = heap[m].id
                   THEN pr[2] = m
                   ELSE /\ heap[pr[2]].id = heap[pr[1]].id
                        /\ heap[pr[2]].resolver = heap[pr[1]].resolver
                        /\ Len(heap[pr[2]].dependencies)
                               = Len(heap[pr[1]].dependencies)
                        /\ m \in Reach(heap, pr[2]) => pr[2] > graph.before
            /\ r > graph.before
            /\ Output(heap, r) = OutputMocked(heap, p, m)

C10_Witness ==
    /\ graph.op = "mock"
    /\ graph.extra \in Reach(heap, graph.result[1])
    /\ \A i \in 1..Len(heap[graph.result[1]].dependencies) :
           heap[graph.result[1]].dependencies[i] # graph.extra
    /\ Output(heap, graph.result[1]) # Output(heap, graph.list[1])

\* The mock among ms that has the id of provider d, 0 when there is none.
MockFor(h, ms, d) ==
    IF \E j \in 1..Len(ms) : h[ms[j]].id = h[d].id
    THEN ms[CHOOSE j \in 1..Len(ms) : h[ms[j]].id = h[d].id]
    ELSE 0

\* C11: P.mock(m1..mk), in either variant, returns a new provider with P's id
\* and as many dependencies as P, the mock with the id of P's i-th dependency
\* standing at position i when there is one; when the result is resolved, the
\* mocks are resolved and no original dependency that was given a mock has
\* its resolver invoked.
C11_MockReplacesDirectDependencies ==
    LET rw == IF graph.op = "resolved" THEN graph.extra ELSE graph
    IN  rw.op \in {"mockSome", "mockDirect"} =>
        LET p  == rw.list[1]
            r  == rw.result[1]
            ms == rw.extra
        IN  /\ r > rw.before + Len(ms)
            /\ heap[r].id = heap[p].id
            /\ Len(heap[r].dependencies) = Len(heap[p].dependencies)
            /\ \A i \in 1..Len(heap[p].dependencies) :
                   LET d == heap[p].dependencies[i]
                   IN  MockFor(heap, ms, d) # 0 =>
                       /\ heap[r].dependencies[i] = MockFor(heap, ms, d)
                       /\ graph.op = "resolved" =>
                              /\ heap[MockFor(heap, ms, d)].invoked >= 1
                              /\ heap[d].invoked = 0


\* The rewrite operations that are mock traversals.
MockOps == {"mock", "mockSome", "groupMock", "groupMockDirect"}

\* C12: after a mock traversal every provider of the original graph has one
\* single counterpart in the result, wherever it occurs: as a dependency of
\* different providers, or as a member of the group and as a dependency of
\* another member.
C12_MockKeepsSharing ==
    graph.op \in MockOps =>
        \A pr1, pr2 \in ResultPairs : pr1[1] = pr2[1] => pr1[2] = pr2[2]


\* The ids of the mocks given to the mock traversal rw.
MockIds(rw) ==
    IF rw.op = "mock" THEN {heap[rw.extra].id}
    ELSE {heap[rw.extra[j]].id : j \in 1..Len(rw.extra)}

C14_ResolveAppliesResolverToDependencies ==
    /\ graph.op = "resolved" =>
           graph.result[1].out = Output(heap, graph.list[1])
    /\ graph.op = "build" =>
           /\ \A i \in 1..Len(graph.list) :
                 /\ graph.result[i].out = Output(heap, graph.list[i])
                 /\ heap[graph.list[i]].resolver = Phony =>
                        graph.result[i].out = <<Phony, {}>>
           /\ graph.extra.container =
                  {<<heap[graph.list[i]].id, Output(heap, graph.list[i])>> :
                      i \in 1..Len(graph.list)}

\* group(b, c)() for a, b using a, c using b: {b: b{a: a{}}, c: c{b: b{a: a{}}}}.
C14_Witness ==
    /\ graph.op = "build" /\ graph.extra.key = None
    /\ LET a == <<"a", {}>>
           b == <<"b", {<<"a", a>>}>>
           c == <<"c", {<<"b", b>>}>>
       IN  graph.extra.container = {<<"b", b>>, <<"c", c>>}


\* C15: with P derived by persisted(k0), k being k0 or the literal
\* "singleton" when k0 is omitted, a call with no key or with k reads and
\* populates the entry under k (an entry already there is the one returned);
\* a call with another key returns the entry under that key, leaves the entry
\* under k as it was, and the two entries differ, so that the cache holds the
\* keys k and other.
C15_DefaultKeyIsPersisted ==
    [][\A k0 \in Keys \cup {None} :
          defaultCacheKey = persisted(k0) =>
          LET k == IF k0 = None THEN "singleton" ELSE k0
          IN  \A arg \in Keys \cup {None}, o \in CachingOpts :
                 Resolve(arg, o) =>
                    IF arg \in {None, k}
                    THEN /\ cache'[k] # 0
                         /\ cache'[k] = expect'[k]
                         /\ cache[k] # 0 => cache'[k] = cache[k]
                    ELSE /\ cache'[arg] # 0
                         /\ cache'[arg] = expect'[arg]
                         /\ cache'[k] = cache[k]
                         /\ cache[k] # 0 =>
                               /\ res'[cache[k]] = res[cache[k]]
                               /\ cache'[arg] # cache'[k]
                               /\ {key \in Keys : cache'[key] # 0} = {k, arg}]_vars

\* p() and then p("other") on persisted(): two entries, the second just made.
C15_Witness ==
    /\ defaultCacheKey = persisted(None)
    /\ lastCall.called /\ lastCall.k = "other" /\ lastCall.fresh
    /\ cache[SINGLETON_CACHE_KEY] # 0 /\ cache["other"] # 0
    /\ cache[SINGLETON_CACHE_KEY] # cache["other"]


\* The direct dependencies of the completed provider that resolvedPart
\* supplies, and those it does not.
Supplied ==
    {d \in 1..graph.before :
        /\ \E i \in 1..Len(heap[graph.extra.p].dependencies) :
              heap[graph.extra.p].dependencies[i] = d
        /\ heap[d].id \in graph.extra.given}

Missing ==
    {d \in 1..graph.before :
        /\ \E i \in 1..Len(heap[graph.extra.p].dependencies) :
              heap[graph.extra.p].dependencies[i] = d
        /\ heap[d].id \notin graph.extra.given}

\* The resolver of the completed provider was invoked once, with the union of
\* resolvedPart and the outputs of the missing dependencies.
InvokedOnceWithUnion ==
    LET p == graph.extra.p
    IN  /\ heap[p].invoked = 1
        /\ heap[p].resolver # Phony =>
              graph.result[1].out =
                  <<heap[p].resolver,
                    {<<id, <<"given", id>>>> : id \in graph.extra.given}
                    \cup {<<heap[d].id, Output(heap, d)>> : d \in Missing}>>

\* C16 as stated: complete resolves exactly the direct dependencies whose id
\* is not a key of resolvedPart, the resolver of no supplied dependency is
\* invoked, and the resolver of the provider is invoked once with the union.
C16_SuppliedNeverInvoked ==
    graph.op = "complete" =>
        /\ {graph.list[i] : i \in 1..Len(graph.list)} = Missing
        /\ \A d \in Supplied : heap[d].invoked = 0
        /\ InvokedOnceWithUnion

\* C16: complete resolves exactly the direct dependencies whose id is not a
\* key of resolvedPart; the resolver of a supplied dependency is invoked only
\* where a missing dependency depends on it, directly or transitively, and
\* then for that missing dependency's own instance; the resolver of the
\* provider is invoked once with the union of resolvedPart and the newly
\* resolved outputs.
C16_CompleteResolvesMissingOnly ==
    graph.op = "complete" =>
        /\ {graph.list[i] : i \in 1..Len(graph.list)} = Missing
        /\ \A d \in Supplied :
              heap[d].invoked >= 1 <=>
                  \E m \in Missing : d \in Reach(heap, m)
        /\ \A d \in Missing : heap[d].invoked >= 1
        /\ InvokedOnceWithUnion

\* c using a and b: c.complete({a: ...}) resolved b and never invoked a.
C16_Witness ==
    /\ graph.op = "complete"
    /\ heap[graph.extra.p].resolver # Phony
    /\ \E d \in Supplied : heap[d].invoked = 0
    /\ \E m \in Missing : heap[m].invoked = 1


\* C19: a call of a group with a key k leaves the instance of every member
\* under k in that member's own cache; when the call before it was a call
\* with k of a group over the same members, it returns the instances that
\* call returned and invokes no resolver.
C19_GroupCachesInMembers ==
    (graph.op = "build" /\ graph.extra.key # None) =>
        LET k    == graph.extra.key
            last == graph.extra.last
        IN  /\ \A i \in 1..Len(graph.list) :
                  heap[graph.list[i]].cache[k] = graph.result[i]
            /\ (/\ last.op = "build"
                /\ last.extra.key = k
                /\ {last.list[j] : j \in 1..Len(last.list)} =
                       {graph.list[i] : i \in 1..Len(graph.list)})
               => /\ \A i \in 1..Len(graph.list), j \in 1..Len(last.list) :
                        graph.list[i] = last.list[j] =>
                            graph.result[i] = last.result[j]
                  /\ \A p \in 1..Len(heap) :
                        heap[p].invoked = graph.extra.invoked[p]

\* group(a, b)(k) and then group(b, a)(k), with b using a.
C19_Witness ==
    /\ graph.op = "build" /\ graph.extra.key = SINGLETON_CACHE_KEY
    /\ Len(graph.list) = 2
    /\ graph.extra.last.op = "build"
    /\ graph.extra.last.extra.key = SINGLETON_CACHE_KEY
    /\ graph.extra.last.list = <<graph.list[2], graph.list[1]>>
    /\ graph.list[2] \in Reach(heap, graph.list[1]) \ {graph.list[1]}
    /\ heap[graph.list[1]].resolver # Phony


\* ================================================ the lifecycle (HookSpec)
\* The providers of src/index.ts as far as their events go. heap holds them in
\* the order of their creation: the resolver a provider keeps, whether it has
\* a default cache key and an instance cached under it, and the hooks of its
\* event manager. A resolver is the phony one, the function the user gave to
\* by(), or the wrapper createProvider makes around the resolver it is given,
\* which passes on the hook interface of the provider that made the wrapper.
PhonyResolver == [kind |-> Phony, owner |-> 0, depth |-> 0]
UserResolver == [kind |-> "user", owner |-> 0, depth |-> 0]

\* createEventManager's registerStartEventHook and registerStopEventHook of
\* provider lc, called by the resolver body with a hook of its instance.
registerEventHooks(h, lc, hook) ==
    [h EXCEPT ![lc].startEventHooks = Append(@, hook),
              ![lc].stopEventHooks = Append(@, hook)]

\* createProvider(id, {resolver, defaultCacheKey}): the resolver given, if
\* any, is wrapped; a wrapper around a wrapper is one level deeper.
createProviderWithEvents(h, resolver, cacheKey) ==
    Append(h, [resolver |-> IF resolver.kind = Phony THEN PhonyResolver
                            ELSE [kind |-> "wrapped",
                                  owner |-> IF resolver.kind = "wrapped"
                                            THEN resolver.owner
                                            ELSE Len(h) + 1,
                                  depth |-> resolver.depth + 1],
               defaultCacheKey |-> cacheKey,
               cached |-> FALSE,
               resolutions |-> 0,
               startEventHooks |-> <<>>,
               stopEventHooks |-> <<>>])

\* The resolver of p is called: a wrapper calls the resolver it wraps with the
\* container and its own hook interface, and a wrapped wrapper takes the
\* container alone, so the function of the user gets the interface of the
\* innermost wrapper and registers a start and a stop hook on it.
callResolver(h, p) ==
    IF h[p].resolver.kind = Phony THEN h
    ELSE registerEventHooks(h, h[p].resolver.owner,
                            [of |-> p, n |-> h[p].resolutions + 1])

\* await p(): an instance cached under the default key is returned,
\* otherwise the resolver is called and, with a default key, its result
\* cached.
resolveWithEvents(h, p) ==
    IF h[p].defaultCacheKey /\ h[p].cached THEN h
    ELSE [callResolver(h, p) EXCEPT ![p].resolutions = @ + 1,
                                    ![p].cached = h[p].defaultCacheKey]

HIdle == graph.op \in {None, "lifecycle"}

\* What the host did last: the call, the providers it was made on and, for
\* start and stop, the hooks that were invoked (the call of a start or stop
\* that has returned or rejected is kept in extra.call).
NoEventCall == [kind |-> None]

Lifecycle(op, p, fired) ==
    graph' = [op |-> "lifecycle", list |-> <<p>>, result |-> fired,
              before |-> Len(heap), extra |-> [op |-> op, call |-> NoEventCall]]

hcvars == <<defaultCacheKey, defaultCacheTTL, disposer, res, cache, ops,
            expect, lastCall, lastDone, lastDisp>>

\* provide(id), and provide(id).using(...): no resolver.
HProvide ==
    /\ HIdle /\ Len(heap) < MaxHooked
    /\ heap' = createProviderWithEvents(heap, PhonyResolver, FALSE)
    /\ Lifecycle("provide", Len(heap) + 1, <<>>)
    /\ UNCHANGED cvars

\* p.by(resolver): a provider with the function of the user.
By(p) ==
    /\ HIdle /\ Len(heap) < MaxHooked
    /\ heap' = createProviderWithEvents(heap, UserResolver,
                                        heap[p].defaultCacheKey)
    /\ Lifecycle("by", Len(heap) + 1, <<>>)
    /\ UNCHANGED cvars

\* p.as(id), p.temporary(ttl), p.clone(), p.mock(...) and, for a provider
\* with no dependencies, p.isolate(): a provider with the resolver p keeps.
Derive(p, how) ==
    /\ HIdle /\ Len(heap) < MaxHooked
    /\ heap' = createProviderWithEvents(heap, heap[p].resolver,
                                        heap[p].defaultCacheKey)
    /\ Lifecycle(how, Len(heap) + 1, <<>>)
    /\ UNCHANGED cvars

\* p.once(cacheKey): the same with a default cache key.
Once(p) ==
    /\ HIdle /\ Len(heap) < MaxHooked
    /\ heap' = createProviderWithEvents(heap, heap[p].resolver, TRUE)
    /\ Lifecycle("once", Len(heap) + 1, <<>>)
    /\ UNCHANGED cvars

\* The host resolves p.
HResolve(p) ==
    /\ HIdle
    /\ heap[p].resolutions < MaxResolutions
    /\ heap' = resolveWithEvents(heap, p)
    /\ Lifecycle("resolve", p, <<>>)
    /\ UNCHANGED cvars

\* ---- hooks of the host
\* A hook the host registers returns, throws when it is called, or returns a
\* promise that rejects; the hooks a resolver registers return.
HookModes == {"returns", "throws", "rejects"}
Mode(hook) == IF "mode" \in DOMAIN hook THEN hook.mode ELSE "returns"

HostHooks ==
    UNION {{heap[p].startEventHooks[i] : i \in 1..Len(heap[p].startEventHooks)}
           \cup {heap[p].stopEventHooks[i] : i \in 1..Len(heap[p].stopEventHooks)}
              : p \in 1..Len(heap)}
    \ {[of |-> p, n |-> k] : p \in 1..MaxHooked, k \in 1..MaxResolutions}

\* provider.onStart(hook) / provider.onStop(hook) on every provider of ps.
RECURSIVE registerOn(_, _, _, _)
registerOn(h, ps, kind, hook) ==
    IF ps = <<>> THEN h
    ELSE registerOn(
             IF kind = "start"
             THEN [h EXCEPT ![Head(ps)].startEventHooks = Append(@, hook)]
             ELSE [h EXCEPT ![Head(ps)].stopEventHooks = Append(@, hook)],
             Tail(ps), kind, hook)

\* p.onStart(hook), p.onStop(hook)
OnEvent(p, kind, mode) ==
    /\ HIdle
    /\ Cardinality(HostHooks) < MaxHostHooks
    /\ LET hook == [on |-> p, n |-> Cardinality(HostHooks) + 1, mode |-> mode]
       IN  heap' = registerOn(heap, <<p>>, kind, hook)
    /\ Lifecycle("on", p, <<>>)
    /\ UNCHANGED cvars

\* group(...providers).onStart(hook), .onStop(hook): the hook is registered
\* on every provider of the group.
GroupOnEvent(providers, kind, mode) ==
    /\ HIdle /\ providers # <<>>
    /\ Cardinality(HostHooks) < MaxHostHooks
    /\ LET hook == [group |-> providers, n |-> Cardinality(HostHooks) + 1,
                    mode |-> mode]
       IN  /\ heap' = registerOn(heap, providers, kind, hook)
           /\ graph' = [op |-> "lifecycle", list |-> providers,
                        result |-> <<hook>>, before |-> Len(heap),
                        extra |-> [op |-> "group on", call |-> NoEventCall]]
    /\ UNCHANGED cvars

\* ---- firing
\* fireStartEvent / fireStopEvent: hooks.map((hook) => hook()) calls the hooks
\* in order and stops at one that throws; Promise.all of what they returned
\* rejects when one of them threw or rejects.
fireEvent(hooks) ==
    LET throwing == {i \in 1..Len(hooks) : Mode(hooks[i]) = "throws"}
        last     == IF throwing = {} THEN Len(hooks)
                    ELSE CHOOSE i \in throwing : \A j \in throwing : i <= j
        invoked  == SubSeq(hooks, 1, last)
    IN  [invoked |-> invoked,
         failed  |-> \E i \in 1..Len(invoked) : Mode(invoked[i]) # "returns"]

\* The event of the i-th provider of a call is fired: its hooks as they are
\* at that moment.
fireMember(h, c) ==
    LET m == c.providers[c.i]
        f == fireEvent(IF c.kind = "start" THEN h[m].startEventHooks
                       ELSE h[m].stopEventHooks)
    IN  [c EXCEPT !.invoked = @ \o f.invoked, !.failing = f.failed]

\* A start or stop call as far as its first await. passed is the argument the
\* host gave, shouldDispose what the stop of each provider receives:
\* provider.stop(shouldDispose) receives the argument, group.stop calls
\* provider.stop() with none.
NewEventCall(h, kind, providers, isGroup, passed) ==
    fireMember(h, [kind |-> kind, providers |-> providers, group |-> isGroup,
                   passed |-> passed,
                   shouldDispose |-> passed /\ ~isGroup,
                   i |-> 1, invoked |-> <<>>, failing |-> FALSE])

Called(c) ==
    /\ HIdle
    /\ tasks' = Append(tasks, c)
    /\ graph' = [op |-> "lifecycle", list |-> c.providers, result |-> <<>>,
                 before |-> Len(heap),
                 extra |-> [op |-> "called", call |-> NoEventCall]]
    /\ UNCHANGED <<heap, hcvars>>

\* p.start(), p.stop(shouldDispose)
Start(p) == Called(NewEventCall(heap, "start", <<p>>, FALSE, FALSE))

Stop(p, shouldDispose) ==
    Called(NewEventCall(heap, "stop", <<p>>, FALSE, shouldDispose))

\* group(...providers).start(), .stop(shouldDispose)
GroupStart(providers) ==
    /\ providers # <<>>
    /\ Called(NewEventCall(heap, "start", providers, TRUE, FALSE))

GroupStop(providers, shouldDispose) ==
    /\ providers # <<>>
    /\ Called(NewEventCall(heap, "stop", providers, TRUE, shouldDispose))

disposeWithEvents_Kept(h, p) == h

\* provider.dispose(): every entry of the cache is deleted.
disposeWithEvents(h, p) == [h EXCEPT ![p].cached = FALSE]

\* The hooks of the current provider have all resolved: its stop goes on to
\* dispose of its cache when it was told to; a group goes on to its next
\* provider, and after the last provider the call returns.
EventReturns(t) ==
    /\ HIdle
    /\ t \in 1..Len(tasks)
    /\ ~tasks[t].failing
    /\ LET c  == tasks[t]
           h1 == IF c.kind = "stop" /\ c.shouldDispose
                 THEN disposeWithEvents(heap, c.providers[c.i]) ELSE heap
       IN  /\ heap' = h1
           /\ IF c.i < Len(c.providers)
              THEN /\ tasks' = [tasks EXCEPT
                                  ![t] = fireMember(h1, [c EXCEPT !.i = @ + 1])]
                   /\ graph' = [op |-> "lifecycle", list |-> c.providers,
                                result |-> <<>>, before |-> Len(heap),
                                extra |-> [op |-> "next", call |-> NoEventCall]]
              ELSE /\ tasks' = SubSeq(tasks, 1, t - 1)
                                \o SubSeq(tasks, t + 1, Len(tasks))
                   /\ graph' = [op |-> "lifecycle", list |-> c.providers,
                                result |-> c.invoked, before |-> Len(heap),
                                extra |-> [op |-> "returned", call |-> c]]
    /\ UNCHANGED hcvars

\* A hook of the current provider threw or rejected: the call rejects there.
EventRejects(t) ==
    /\ HIdle
    /\ t \in 1..Len(tasks)
    /\ tasks[t].failing
    /\ tasks' = SubSeq(tasks, 1, t - 1) \o SubSeq(tasks, t + 1, Len(tasks))
    /\ graph' = [op |-> "lifecycle", list |-> tasks[t].providers,
                 result |-> tasks[t].invoked, before |-> Len(heap),
                 extra |-> [op |-> "rejected", call |-> tasks[t]]]
    /\ UNCHANGED <<heap, hcvars>>

\* The providers the host can name; it awaits a start or stop it has called
\* before it does anything else.
Hooked == IF HIdle /\ tasks = <<>> THEN 1..Len(heap) ELSE {}

\* The host has only created providers so far, and may create another.
Building ==
    /\ tasks = <<>>
    /\ Len(heap) < MaxMembers
    /\ \A p \in 1..Len(heap) :
          /\ heap[p].resolutions = 0
          /\ heap[p].startEventHooks = <<>>
          /\ heap[p].stopEventHooks = <<>>

HNext ==
    \/ HProvide
    \/ \E p \in Hooked : By(p)
    \/ \E p \in Hooked, how \in {"as", "temporary", "clone", "mock", "isolate"} :
          Derive(p, how)
    \/ \E p \in Hooked : Once(p)
    \/ \E p \in Hooked : HResolve(p)
    \/ \E p \in Hooked : Start(p)
    \/ \E p \in Hooked, shouldDispose \in BOOLEAN : Stop(p, shouldDispose)
    \/ EventReturns(1)

\* The events with hooks of the host and groups: the host creates its
\* providers first, then registers hooks, resolves each provider at most once,
\* and fires events.
ENext ==
    \/ Building /\ HProvide
    \/ \E p \in Hooked : Building /\ Once(p)
    \/ \E p \in Hooked : heap[p].resolutions = 0 /\ HResolve(p)
    \/ \E p \in Hooked, kind \in {"start", "stop"}, mode \in HookModes :
          OnEvent(p, kind, mode)
    \/ \E ps \in Lists(Hooked, MaxList), kind \in {"start", "stop"},
          mode \in HookModes : GroupOnEvent(ps, kind, mode)
    \/ \E p \in Hooked : Start(p)
    \/ \E p \in Hooked, shouldDispose \in BOOLEAN : Stop(p, shouldDispose)
    \/ \E ps \in Lists(Hooked, MaxList) : GroupStart(ps)
    \/ \E ps \in Lists(Hooked, MaxList), shouldDispose \in BOOLEAN :
          GroupStop(ps, shouldDispose)
    \/ EventReturns(1)
    \/ EventRejects(1)

HookSpec == GInit /\ [][HNext]_vars
EventSpec == GInit /\ [][ENext]_vars

\* ================================================ lifecycle: the properties
\* The hooks that the resolutions of p registered.
HooksOf(p) == {[of |-> p, n |-> k] : k \in 1..heap[p].resolutions}

\* C20: the hooks that a resolver body registered during a resolution of P
\* are hooks of P's own lifecycle, whichever way P was made, and P.start()
\* and P.stop() call them.
C20_HooksGoToTheResolvedProvider ==
    graph.op = "lifecycle" =>
        /\ \A p \in 1..Len(heap) :
              heap[p].resolver.kind # Phony =>
                 /\ HooksOf(p) \subseteq
                       {heap[p].startEventHooks[i] :
                           i \in 1..Len(heap[p].startEventHooks)}
                 /\ HooksOf(p) \subseteq
                       {heap[p].stopEventHooks[i] :
                           i \in 1..Len(heap[p].stopEventHooks)}
        /\ (graph.extra.op = "returned" /\ ~graph.extra.call.group) =>
              (heap[graph.list[1]].resolver.kind # Phony =>
                  HooksOf(graph.list[1]) \subseteq
                      {graph.result[i] : i \in 1..Len(graph.result)})


\* How often hook was invoked by the call that has just ended.
Invocations(hook) ==
    Cardinality({i \in 1..Len(graph.result) : graph.result[i] = hook})

\* The hooks of provider m for the event of the call that has just ended.
EventHooks(m) ==
    LET hooks == IF graph.extra.call.kind = "start"
                 THEN heap[m].startEventHooks ELSE heap[m].stopEventHooks
    IN  {hooks[i] : i \in 1..Len(hooks)}

Members == {graph.list[i] : i \in 1..Len(graph.list)}

\* C21: when start / stop of a group has returned, every hook registered on
\* that group for the event was invoked exactly once, whatever the number of
\* members, and so was every hook registered directly on a member.
C21_GroupHookFiresOnce ==
    (graph.op = "lifecycle" /\ graph.extra.op = "returned"
        /\ graph.extra.call.group) =>
        \A m \in Members : \A hook \in EventHooks(m) :
            (\/ ("group" \in DOMAIN hook /\ hook.group = graph.list)
             \/ ("on" \in DOMAIN hook /\ hook.on = m))
            => Invocations(hook) = 1


\* C22: when group.stop(true) has returned, every stop hook of every member
\* was invoked and the cache of every member is empty.
C22_GroupStopPassesShouldDispose ==
    (graph.op = "lifecycle" /\ graph.extra.op = "returned"
        /\ graph.extra.call.group /\ graph.extra.call.kind = "stop"
        /\ graph.extra.call.passed) =>
        \A m \in Members :
            /\ \A hook \in EventHooks(m) : Invocations(hook) >= 1
            /\ ~heap[m].cached


\* C23: a call of provider.stop fires the stop hooks and disposes of nothing
\* while they are pending; it returns when all of them have resolved, and
\* only then, with shouldDispose, is every entry of the cache removed, while
\* stop() and stop(false) leave the cache as it is; when a hook fails, the
\* call rejects.
C23_StopDisposesAfterHooks ==
    [][/\ (tasks = <<>> /\ tasks' # <<>>) => heap' = heap
       /\ (tasks # <<>> /\ tasks' = <<>>) =>
             LET c      == tasks[1]
                 p      == c.providers[1]
                 failed == \E i \in 1..Len(c.invoked) :
                               Mode(c.invoked[i]) # "returns"
             IN  (c.kind = "stop" /\ ~c.group) =>
                    IF failed
                    THEN /\ graph'.extra.op = "rejected"
                         /\ heap' = heap
                    ELSE /\ graph'.extra.op = "returned"
                         /\ c.invoked = heap[p].stopEventHooks
                         /\ graph'.result = c.invoked
                         /\ heap' = IF c.passed
                                    THEN [heap EXCEPT ![p].cached = FALSE]
                                    ELSE heap]_vars

\* p.stop(true) has returned, a hook of the host was invoked and the instance
\* that was cached is gone.
C23_Witness ==
    /\ graph.op = "lifecycle" /\ graph.extra.op = "returned"
    /\ graph.extra.call.kind = "stop" /\ ~graph.extra.call.group
    /\ graph.extra.call.passed
    /\ graph.result # <<>>
    /\ heap[graph.list[1]].resolutions = 1
    /\ heap[graph.list[1]].defaultCacheKey
    /\ ~heap[graph.list[1]].cached


\* C24: when a start or stop of a provider or of a group has ended, every
\* hook registered for the event on every member was invoked, also when one
\* of them failed, and the call rejected exactly when a hook failed.
C24_FailingHookStopsNoOther ==
    (graph.op = "lifecycle" /\ graph.extra.op \in {"returned", "rejected"}) =>
        /\ \A m \in Members : \A hook \in EventHooks(m) :
              Invocations(hook) >= 1
        /\ graph.extra.op = "rejected" <=>
              \E m \in Members : \E hook \in EventHooks(m) :
                  Mode(hook) # "returns"


\* ============================================== the single slot (SlotSpec)
\* The provider of src/unnamed/part_002: it keeps its instance in the variable
\* resolvedInstance instead of a cache. heap holds the one provider, tasks the
\* resolutions of it that were started: where each one is, the instance its
\* resolver call makes and what it returned. NoSlot is undefined; an instance
\* is numbered by the resolver call that made it and is truthy or falsy.
NoSlot == [n |-> 0, truthy |-> FALSE]

\* provide(id).by(resolver), with .transient() or without
SProvide(isTransient) ==
    /\ graph.op = None /\ heap = <<>>
    /\ heap' = <<[isTransient |-> isTransient, resolvedInstance |-> NoSlot,
                  invoked |-> 0]>>
    /\ UNCHANGED <<graph, cvars>>

\* resolve as far as its first await: the instance in the slot is returned
\* when there is a truthy one and the provider is not transient, otherwise the
\* container of the dependencies is awaited.
SlotResolve ==
    /\ heap # <<>> /\ graph.op = None
    /\ Len(tasks) < MaxSlotCalls
    /\ tasks' = Append(tasks,
          IF heap[1].resolvedInstance.truthy /\ ~heap[1].isTransient
          THEN [pc |-> "returned", instance |-> NoSlot,
                result |-> heap[1].resolvedInstance]
          ELSE [pc |-> "container", instance |-> NoSlot, result |-> NoSlot])
    /\ UNCHANGED <<heap, graph, hcvars>>

\* The container has resolved: the resolver is called and awaited.
SlotInvoke(t, truthy) ==
    /\ heap # <<>> /\ graph.op = None
    /\ t \in 1..Len(tasks)
    /\ tasks[t].pc = "container"
    /\ heap' = [heap EXCEPT ![1].invoked = @ + 1]
    /\ tasks' = [tasks EXCEPT
                    ![t].pc = "resolver",
                    ![t].instance = [n |-> heap[1].invoked + 1,
                                     truthy |-> truthy]]
    /\ UNCHANGED <<graph, hcvars>>

\* The resolver has resolved: the instance is put into the slot and returned.
slotAssign(h, instance) == [h EXCEPT ![1].resolvedInstance = instance]

SlotSettle(t) ==
    /\ heap # <<>> /\ graph.op = None
    /\ t \in 1..Len(tasks)
    /\ tasks[t].pc = "resolver"
    /\ heap' = slotAssign(heap, tasks[t].instance)
    /\ tasks' = [tasks EXCEPT ![t].pc = "returned",
                              ![t].result = heap'[1].resolvedInstance]
    /\ UNCHANGED <<graph, hcvars>>

SNext ==
    \/ \E isTransient \in BOOLEAN : SProvide(isTransient)
    \/ SlotResolve
    \/ \E t \in 1..MaxSlotCalls, truthy \in BOOLEAN : SlotInvoke(t, truthy)
    \/ \E t \in 1..MaxSlotCalls : SlotSettle(t)

SlotSpec == GInit /\ [][SNext]_vars

\* =============================================== single slot: the properties
\* C25: with isTransient = false the resolver is invoked at most once, and
\* every resolution that has returned, whether it was started before or after
\* the first one settled, returned the one instance.
C25_NonTransientResolvesOnce ==
    (heap # <<>> /\ graph.op = None /\ ~heap[1].isTransient) =>
        /\ heap[1].invoked <= 1
        /\ \A t \in 1..Len(tasks) :
              tasks[t].pc = "returned" =>
                  tasks[t].result = [n |-> 1, truthy |-> tasks[t].result.truthy]


\* ========================================= the builder methods (BuilderSpec)
\* The providers of src/unnamed/part_001 as far as their configuration goes.
\* heap holds the providers in the order of their creation: what createProvider
\* was given (id, dependencies, resolver, disposer, defaultCacheKey,
\* defaultCacheTTL), the cache object it made, an index into cache, and the
\* builder call that made it. cache holds the cache objects, each a map from a
\* key to its entry: the disposer and the ttl the entry was stored with, and
\* the call and options that stored it. Resolutions fulfil and disposers
\* return here; the other outcomes are those of the cache model above.
Undefined == 0 - 1
NoEntry == [kind |-> None]
CallOpts ==
    {[disposer |-> None, ttl |-> Undefined], [disposer |-> None, ttl |-> 0],
     [disposer |-> None, ttl |-> 2], [disposer |-> "d2", ttl |-> Undefined]}

\* createResolutionCache(): a new, empty cache object.
createResolutionCache_Shared(c, from) ==
    IF from = 0
    THEN [caches |-> Append(c, [k \in Keys |-> NoEntry]), ret |-> Len(c) + 1]
    ELSE [caches |-> c, ret |-> from]

createResolutionCache(c, from) ==
    [caches |-> Append(c, [k \in Keys |-> NoEntry]), ret |-> Len(c) + 1]

\* What each builder method hands to createProvider, r being the receiver.
asOpts(r, id) == [r EXCEPT !.id = id]
byOpts(r, resolver) == [r EXCEPT !.resolver = resolver, !.disposer = None]
usingOpts(r, deps) ==
    [r EXCEPT !.dependencies = deps, !.resolver = Phony, !.disposer = None]
withDisposerOpts(r, d) == [r EXCEPT !.disposer = d]
persistedOpts(r, cacheKey) == [r EXCEPT !.defaultCacheKey = persisted(cacheKey)]
temporaryOpts(r, ttl) == [r EXCEPT !.defaultCacheTTL = ttl]
cloneOpts_NoDisposer(r) == [r EXCEPT !.disposer = None]
cloneOpts(r) == r
mockOpts(h, r, mocks) ==
    [r EXCEPT !.dependencies =
        [i \in 1..Len(r.dependencies) |->
            LET found == {j \in 1..Len(mocks) :
                             h[mocks[j]].id = h[r.dependencies[i]].id}
            IN  IF found = {} THEN r.dependencies[i]
                ELSE mocks[CHOOSE j \in found : \A l \in found : j <= l]]]

\* createProvider(id, opts), called by builder method how on receiver from.
Built(opts, how, from) ==
    /\ Len(heap) < MaxBuilt
    /\ LET c == createResolutionCache(cache, IF from = 0 THEN 0
                                             ELSE heap[from].cache)
       IN  /\ cache' = c.caches
           /\ heap' = Append(heap, [opts EXCEPT !.dependencies = unique(@),
                                                !.cache = c.ret,
                                                !.made = [how |-> how,
                                                          from |-> from]])
    /\ UNCHANGED <<defaultCacheKey, defaultCacheTTL, disposer, res, tasks,
                   ops, expect, lastCall, lastDone, lastDisp, graph>>

\* provide(id)
BProvide ==
    /\ heap = <<>>
    /\ Built([id |-> "a", dependencies |-> <<>>, resolver |-> Phony,
              disposer |-> None, defaultCacheKey |-> None,
              defaultCacheTTL |-> Undefined, cache |-> 0,
              made |-> [how |-> None, from |-> 0]], "provide", 0)

BAs(p) == Built(asOpts(heap[p], "b"), "as", p)
BBy(p) == Built(byOpts(heap[p], "r"), "by", p)
BUsing(p, deps) == Built(usingOpts(heap[p], deps), "using", p)
BWithDisposer(p) == Built(withDisposerOpts(heap[p], "d1"), "withDisposer", p)
BPersisted(p, cacheKey) ==
    Built(persistedOpts(heap[p], cacheKey), "persisted", p)
BTemporary(p) == Built(temporaryOpts(heap[p], 1), "temporary", p)
BClone(p) == Built(cloneOpts(heap[p]), "clone", p)
BMock(p, m) == Built(mockOpts(heap, heap[p], <<m>>), "mock", p)

\* cacheResolution of provider p: the disposer and the ttl of the call, or the
\* defaults of the provider, go to cache.set.
cacheResolutionOf(c, pr, key, kind, cacheOpts) ==
    [c EXCEPT ![pr.cache][key] =
        [kind     |-> kind,
         opts     |-> cacheOpts,
         disposer |-> IF cacheOpts.disposer # None THEN cacheOpts.disposer
                      ELSE pr.disposer,
         ttl      |-> IF cacheOpts.ttl \notin {Undefined, 0} THEN cacheOpts.ttl
                      ELSE pr.defaultCacheTTL]]

CacheCall ==
    /\ ops < MaxCacheCalls
    /\ ops' = ops + 1
    /\ UNCHANGED <<defaultCacheKey, defaultCacheTTL, disposer, res, tasks,
                   expect, lastDone, lastDisp, graph, heap>>

\* p(cacheKey, cacheOpts): an entry under the key is returned, otherwise a
\* resolution is made and cached.
resolveCached_Recached(c, pr, cacheKey, cacheOpts) ==
    LET key == IF cacheKey # None THEN cacheKey ELSE pr.defaultCacheKey
    IN  IF key # None
        THEN cacheResolutionOf(c, pr, key, "resolve", cacheOpts)
        ELSE c

resolveCached(c, pr, cacheKey, cacheOpts) ==
    LET key == IF cacheKey # None THEN cacheKey ELSE pr.defaultCacheKey
    IN  IF key # None /\ c[pr.cache][key] = NoEntry
        THEN cacheResolutionOf(c, pr, key, "resolve", cacheOpts)
        ELSE c

\* lastCall tells of the step just taken whether it was a resolution that
\* found an entry under its key, and which.
BResolve(p, cacheKey, cacheOpts) ==
    /\ CacheCall
    /\ cache' = resolveCached(cache, heap[p], cacheKey, cacheOpts)
    /\ LET key == IF cacheKey # None THEN cacheKey
                  ELSE heap[p].defaultCacheKey
       IN  lastCall' = IF key # None /\ cache[heap[p].cache][key] # NoEntry
                       THEN [called |-> TRUE, p |-> p, k |-> key,
                             opts |-> cacheOpts]
                       ELSE NoCall

\* p.mount(instance, cacheKey, cacheOpts) and p.complete(resolvedPart,
\* cacheKey, cacheOpts): the entry under the key is disposed of and the new
\* resolution cached.
BMount(p, cacheKey, cacheOpts) ==
    /\ CacheCall
    /\ cache' = cacheResolutionOf(cache, heap[p], cacheKey, "mount", cacheOpts)
    /\ lastCall' = NoCall

BComplete(p, cacheKey, cacheOpts) ==
    /\ CacheCall
    /\ LET key == IF cacheKey # None THEN cacheKey
                  ELSE heap[p].defaultCacheKey
       IN  cache' = IF key # None
                    THEN cacheResolutionOf(cache, heap[p], key, "complete",
                                           cacheOpts)
                    ELSE cache
    /\ lastCall' = NoCall

\* p.dispose(cacheKey), p.dispose()
BDispose(p, cacheKey) ==
    /\ CacheCall
    /\ cache' = [cache EXCEPT ![heap[p].cache] =
                    [k \in Keys |-> IF cacheKey \in {None, k} THEN NoEntry
                                    ELSE @[k]]]
    /\ lastCall' = NoCall

BInit ==
    /\ defaultCacheKey = None
    /\ defaultCacheTTL = 0
    /\ disposer = FALSE
    /\ res = [r \in Slots |-> Free]
    /\ cache = <<>>
    /\ tasks = <<>>
    /\ ops = 0
    /\ expect = [k \in Keys |-> 0]
    /\ lastCall = NoCall
    /\ lastDone = NoDone
    /\ lastDisp = NoDisp
    /\ GIdle

BuiltSoFar == 1..Len(heap)

BNext ==
    \/ BProvide
    \/ \E p \in BuiltSoFar : BAs(p)
    \/ \E p \in BuiltSoFar : BBy(p)
    \/ \E p \in BuiltSoFar, deps \in Lists(BuiltSoFar, 1) : BUsing(p, deps)
    \/ \E p \in BuiltSoFar : BWithDisposer(p)
    \/ \E p \in BuiltSoFar, k \in {None, "other"} : BPersisted(p, k)
    \/ \E p \in BuiltSoFar : BTemporary(p)
    \/ \E p \in BuiltSoFar : BClone(p)
    \/ \E p \in BuiltSoFar, m \in BuiltSoFar : BMock(p, m)
    \/ \E p \in BuiltSoFar, k \in Keys \cup {None}, o \in CallOpts :
          BResolve(p, k, o)
    \/ \E p \in BuiltSoFar, k \in Keys, o \in CallOpts : BMount(p, k, o)
    \/ \E p \in BuiltSoFar, k \in Keys \cup {None}, o \in CallOpts :
          BComplete(p, k, o)
    \/ \E p \in BuiltSoFar, k \in Keys \cup {None} : BDispose(p, k)

BuilderSpec == BInit /\ [][BNext]_vars

\* ========================================== builder methods: the properties
\* The entries in the cache of provider p.
EntriesOf(p) == {cache[heap[p].cache][k] : k \in Keys} \ {NoEntry}

\* C26: a provider made by by(newResolver) has the id, the dependencies, the
\* default cache key, the default TTL and the default disposer of its
\* receiver, and an entry it caches without a disposer of the call has the
\* default disposer of the receiver.
C26_ByKeepsDefaults ==
    \A p \in 1..Len(heap) :
        heap[p].made.how = "by" =>
            LET r == heap[heap[p].made.from]
            IN  /\ heap[p].id = r.id
                /\ heap[p].dependencies = r.dependencies
                /\ heap[p].defaultCacheKey = r.defaultCacheKey
                /\ heap[p].defaultCacheTTL = r.defaultCacheTTL
                /\ heap[p].disposer = r.disposer
                /\ \A e \in EntriesOf(p) :
                      e.opts.disposer = None => e.disposer = r.disposer


\* createCachedResolution: `if (opts.disposer && opts.ttl) setTimeout(...)`,
\* opts.disposer being the cleaner cache.set made: the delay of the timer the
\* entry gets, 0 when it gets none.
timerOf(ttl) == IF ttl \in {Undefined, 0} THEN 0 ELSE ttl

\* C30: an entry made by a resolution, a mount or a complete has the disposer
\* passed with the call, or the default disposer of the provider when the
\* call passed none, and the TTL passed with the call, whatever its value, or
\* the default TTL of the provider when the call passed none: its timer is
\* the one that TTL gives.
C30_CallOptionsOverrideDefaults ==
    \A p \in 1..Len(heap) :
        \A e \in EntriesOf(p) :
            /\ e.disposer = IF e.opts.disposer # None THEN e.opts.disposer
                            ELSE heap[p].disposer
            /\ timerOf(e.ttl) = timerOf(IF e.opts.ttl # Undefined THEN e.opts.ttl
                                        ELSE heap[p].defaultCacheTTL)

\* C39: a resolution that finds an entry under its key leaves every cache as
\* it was: the entry keeps the disposer and the TTL it was stored with,
\* whatever the call passes.
C39_CacheHitChangesNothing ==
    [][(ops' = ops + 1 /\ lastCall'.called) =>
          /\ cache' = cache
          /\ heap' = heap
          /\ cache'[heap[lastCall'.p].cache][lastCall'.k] # NoEntry]_vars

C39_Witness ==
    /\ lastCall.called
    /\ LET e == cache[heap[lastCall.p].cache][lastCall.k]
       IN  /\ e # NoEntry
           /\ lastCall.opts.ttl = 2
           /\ e.ttl = 1
           /\ e.opts # lastCall.opts

\* C27: a builder method returns a new provider and leaves every provider
\* there was as it was, its cache contents included; the new provider has a
\* cache of its own, empty at first; and a call that caches or disposes
\* through one provider leaves the providers and the caches of all the other
\* providers as they were.
C27_BuildersLeaveReceiverAlone ==
    [][/\ Len(heap') > Len(heap) =>
            /\ SubSeq(heap', 1, Len(heap)) = heap
            /\ \A q \in 1..Len(heap) :
                  cache'[heap[q].cache] = cache[heap[q].cache]
            /\ LET new == heap'[Len(heap')]
               IN  /\ \A q \in 1..Len(heap) : heap[q].cache # new.cache
                   /\ \A k \in Keys : cache'[new.cache][k] = NoEntry
       /\ Len(heap') = Len(heap) =>
            /\ heap' = heap
            /\ \E p \in 1..Len(heap) :
                  \A q \in 1..Len(heap) \ {p} :
                      cache'[heap[q].cache] = cache[heap[q].cache]]_vars

C27_Witness ==
    \E p \in 1..Len(heap) :
        /\ heap[p].made.from # 0
        /\ heap[p].made.how # "clone"
        /\ EntriesOf(p) # {}
        /\ EntriesOf(heap[p].made.from) # {}
        /\ cache[heap[p].cache] # cache[heap[heap[p].made.from].cache]

\* C28: a provider made by clone() is another provider than its receiver, with
\* the id, the dependency providers, the resolver, the default cache key, the
\* default TTL and the default disposer of the receiver, and with a cache of
\* its own that is empty at first: a call that changes the cache of one of
\* the two leaves the cache of the other as it was.
C28_CloneIsFreshCopy ==
    [][\A p \in 1..Len(heap') :
          heap'[p].made.how = "clone" =>
              LET from == heap'[p].made.from
                  r == heap'[from]
              IN  /\ p # from
                  /\ heap'[p].id = r.id
                  /\ heap'[p].dependencies = r.dependencies
                  /\ heap'[p].resolver = r.resolver
                  /\ heap'[p].defaultCacheKey = r.defaultCacheKey
                  /\ heap'[p].defaultCacheTTL = r.defaultCacheTTL
                  /\ heap'[p].disposer = r.disposer
                  /\ heap'[p].cache # r.cache
                  /\ p > Len(heap) => EntriesOf(p)' = {}
                  /\ p <= Len(heap) =>
                        \/ cache'[heap[p].cache] = cache[heap[p].cache]
                        \/ cache'[r.cache] = cache[r.cache]]_vars

C28_Witness ==
    \E p \in 1..Len(heap) :
        /\ heap[p].made.how = "clone"
        /\ heap[heap[p].made.from].disposer = "d1"
        /\ EntriesOf(p) # {}
        /\ EntriesOf(heap[p].made.from) # {}
        /\ cache[heap[p].cache] # cache[heap[heap[p].made.from].cache]

\* =================================================== the groups (GroupSpec)
\* The group objects of src/unnamed/part_001. The providers are the references
\* 1..MaxProviders, two of them with the same id; heap holds the groups in the
\* order of their creation: the list and the map of each, and the call that
\* made it.
ProviderIds == <<"a", "b", "a">>

\* Object.fromEntries(providers.map((p) => [p.id, p])): a later entry
\* overwrites an earlier one of the same id.
mapById(providers) ==
    [id \in {ProviderIds[providers[i]] : i \in 1..Len(providers)} |->
        LET at == {i \in 1..Len(providers) : ProviderIds[providers[i]] = id}
        IN  providers[CHOOSE i \in at : \A j \in at : j <= i]]

\* createGroup(...providers)
createGroupObject(providers) ==
    [list |-> unique(providers), map |-> mapById(providers)]

\* group.add(...providers), group.concat(group)
add_Appended(g, providers) ==
    [list |-> g.list \o providers, map |-> mapById(g.list \o providers)]

add(g, providers) == createGroupObject(g.list \o providers)
concat(g, group) == createGroupObject(g.list \o group.list)

Grouped(g, how, from, given) ==
    /\ Len(heap) < MaxGroups
    /\ heap' = Append(heap, [list |-> g.list, map |-> g.map,
                             made |-> [how |-> how, from |-> from,
                                       given |-> given]])
    /\ UNCHANGED <<defaultCacheKey, defaultCacheTTL, disposer, res, cache,
                   tasks, ops, expect, lastCall, lastDone, lastDisp, graph>>

\* group(...providers)
PGroup(providers) ==
    Grouped(createGroupObject(providers), "group", 0, providers)

\* g.add(...providers)
PAdd(g, providers) == Grouped(add(heap[g], providers), "add", g, providers)

\* g.concat(other)
PConcat(g, other) ==
    Grouped(concat(heap[g], heap[other]), "concat", g, heap[other].list)

\* Object.fromEntries(entries) of pairs <<id, value>>: a later entry
\* overwrites an earlier one of the same id.
objectFromEntries_FirstWins(entries) ==
    [id \in {entries[i][1] : i \in 1..Len(entries)} |->
        LET at == {i \in 1..Len(entries) : entries[i][1] = id}
        IN  entries[CHOOSE i \in at : \A j \in at : i <= j][2]]

objectFromEntries(entries) ==
    [id \in {entries[i][1] : i \in 1..Len(entries)} |->
        LET at == {i \in 1..Len(entries) : entries[i][1] = id}
        IN  entries[CHOOSE i \in at : \A j \in at : j <= i][2]]

\* The instance the resolution of provider p fulfils with.
InstanceOf(p) == <<"instance", p>>

\* await g(): every provider of list is called, and the pairs of its id and
\* its instance, in the order of list, make the instance map.
PBuild(g) ==
    /\ heap # <<>>
    /\ LET list == heap[g].list
       IN  graph' = [op |-> "pbuild", list |-> list, result |-> <<>>,
                     before |-> g,
                     extra |-> [called |-> {list[i] : i \in 1..Len(list)},
                                container |-> objectFromEntries(
                                    [i \in 1..Len(list) |->
                                        <<ProviderIds[list[i]],
                                          InstanceOf(list[i])>>])]]
    /\ UNCHANGED <<defaultCacheKey, defaultCacheTTL, disposer, res, cache,
                   tasks, ops, expect, lastCall, lastDone, lastDisp, heap>>

\* The argument lists of group(...) and add(...): a provider may be given
\* more than once.
Given == UNION {[1..k -> 1..MaxProviders] : k \in 0..MaxGiven}

PNext ==
    \/ \E providers \in Given : PGroup(providers)
    \/ \E g \in 1..Len(heap), providers \in Given : PAdd(g, providers)
    \/ \E g \in 1..Len(heap), other \in 1..Len(heap) : PConcat(g, other)
    \/ \E g \in 1..Len(heap) : PBuild(g)

GroupSpec == GInit /\ [][PNext]_vars

\* ===================================================== groups: the properties
\* list holds each element of input once, in the order of the first
\* occurrences in input.
FirstAt(x, input) ==
    CHOOSE i \in 1..Len(input) :
        input[i] = x /\ \A j \in 1..(i - 1) : input[j] # x

IsDeduplicated(list, input) ==
    /\ {list[i] : i \in 1..Len(list)} = {input[i] : i \in 1..Len(input)}
    /\ \A i, j \in 1..Len(list) : i < j => list[i] # list[j]
    /\ \A i, j \in 1..Len(list) :
          i < j => FirstAt(list[i], input) < FirstAt(list[j], input)

\* C29: the list of a group made by group(...) holds each given provider once
\* in the order of the first occurrences; the list of a group made by add or
\* concat holds so the list of the receiver followed by the added providers,
\* and is the list of the receiver when every added provider is a member of
\* it; and making a group leaves the lists and the maps of the groups there
\* were as they were.
C29_GroupListIsDeduplicatedUnion ==
    [][Len(heap') > Len(heap) =>
          LET new == heap'[Len(heap')]
              from == new.made.from
          IN  /\ SubSeq(heap', 1, Len(heap)) = heap
              /\ from = 0 => IsDeduplicated(new.list, new.made.given)
              /\ from # 0 =>
                    /\ IsDeduplicated(new.list,
                                      heap[from].list \o new.made.given)
                    /\ SubSeq(new.list, 1, Len(heap[from].list))
                          = heap[from].list
                    /\ (\A i \in 1..Len(new.made.given) :
                           \E j \in 1..Len(heap[from].list) :
                               heap[from].list[j] = new.made.given[i])
                          => new.list = heap[from].list]_vars

C29_Witness ==
    \E g \in 1..Len(heap) :
        /\ heap[g].made.how \in {"add", "concat"}
        /\ \E i \in 1..Len(heap[g].made.given) :
              \E j \in 1..Len(heap[heap[g].made.from].list) :
                  heap[heap[g].made.from].list[j] = heap[g].made.given[i]
        /\ Len(heap[g].list) > Len(heap[heap[g].made.from].list)
        /\ \E h \in 1..Len(heap) :
              /\ heap[h].made.how = "group"
              /\ Len(heap[h].made.given) > Len(heap[h].list)

\* The providers createGroup was given when it made group g.
GivenTo(g) ==
    IF heap[g].made.from = 0 THEN heap[g].made.given
    ELSE heap[heap[g].made.from].list \o heap[g].made.given

\* x is the last element of xs with the id of x.
LastOfItsId(x, xs) ==
    \E i \in 1..Len(xs) :
        /\ xs[i] = x
        /\ \A j \in (i + 1)..Len(xs) : ProviderIds[xs[j]] # ProviderIds[x]

\* C31: every provider a group was made of is in its list, also when another
\* provider of the same id is; the map holds under each id the last provider
\* of that id given; resolving the group calls every provider of the list, and
\* the instance map holds under each id the instance of the last provider of
\* that id in the list.
C31_SharedIdLastWins ==
    /\ \A g \in 1..Len(heap) :
          /\ \A i \in 1..Len(GivenTo(g)) :
                \E j \in 1..Len(heap[g].list) : heap[g].list[j] = GivenTo(g)[i]
          /\ \A id \in DOMAIN heap[g].map :
                LastOfItsId(heap[g].map[id], GivenTo(g))
          /\ DOMAIN heap[g].map =
                {ProviderIds[GivenTo(g)[i]] : i \in 1..Len(GivenTo(g))}
    /\ graph.op = "pbuild" =>
          /\ graph.extra.called = {graph.list[i] : i \in 1..Len(graph.list)}
          /\ DOMAIN graph.extra.container =
                {ProviderIds[graph.list[i]] : i \in 1..Len(graph.list)}
          /\ \A id \in DOMAIN graph.extra.container :
                \E x \in graph.extra.called :
                    /\ graph.extra.container[id] = InstanceOf(x)
                    /\ ProviderIds[x] = id
                    /\ LastOfItsId(x, graph.list)

C31_Witness ==
    /\ graph.op = "pbuild"
    /\ \E x, y \in graph.extra.called :
          /\ x # y
          /\ ProviderIds[x] = ProviderIds[y]
          /\ graph.extra.container[ProviderIds[x]] = InstanceOf(y)
          /\ heap[graph.before].map[ProviderIds[x]] = x

\* C40: the clone traversal of isolate calls clone() once for each provider
\* reachable from the members, so that it makes one clone of each and one
\* more provider for each that has dependencies, the clone with its
\* dependencies replaced; and every original provider has one single
\* replacement wherever it occurs in the result.
C40_OneCloneOneReplacement ==
    graph.op \in {"isolate", "isolateStoredFirst"} =>
        LET R == UNION {Reach(heap, graph.list[i]) : i \in 1..Len(graph.list)}
        IN  /\ Len(heap) - graph.before =
                  Cardinality(R)
                  + Cardinality({p \in R : heap[p].dependencies # <<>>})
            /\ \A pr1, pr2 \in ResultPairs :
                  pr1[1] = pr2[1] => pr1[2] = pr2[2]

\* ================================== cache: the properties of interleavings
\* C32: an entry under a key is never overwritten by another one set on that
\* key unless it was disposed of first: its disposal was started, its user
\* disposer, if it has one, was invoked, and its timer is not armed.
C32_NoOverwriteWithoutDisposal ==
    [][\A k \in Keys :
          (cache[k] # 0 /\ cache'[k] # 0 /\ cache'[k] # cache[k])
              => /\ res[cache[k]].dcount >= 1
                 /\ res[cache[k]].disposer => res[cache[k]].dinv >= 1
                 /\ res[cache[k]].timer # "armed"]_vars

\* C33: the user disposer is invoked at most once for each cache entry.
C33_DisposerInvokedAtMostOnce ==
    \A r \in Slots : res[r].dinv <= 1

\* C34: an entry is removed from the map only by its own disposal: when the
\* key of an entry is deleted, the disposal of that entry had been started and
\* its timer is not armed.
C34_RemovedOnlyByOwnDisposal ==
    [][\A k \in Keys :
          (cache[k] # 0 /\ cache'[k] = 0)
              => /\ res[cache[k]].dcount >= 1
                 /\ res[cache[k]].timer # "armed"]_vars

\* C35: a resolve with a key never returns a resolution whose instance the
\* user disposer has already been invoked with.
C35_DisposedInstanceNotServed ==
    (lastCall.called /\ lastCall.k # None)
        => res[expect[lastCall.k]].dinv = 0

\* C37: the user disposer of an entry is invoked only by a disposal that was
\* awaiting the resolution of the entry, and only once that resolution has
\* fulfilled; a disposal ends well only when the user disposer it invoked has
\* returned, and the key is deleted in that step; and an entry whose disposal
\* has started stays in the map until a disposer invoked for it has returned.
C37_DisposalAwaitsResolutionAndDisposer ==
    [][/\ \A r \in Slots :
             res'[r].dinv > res[r].dinv =>
                 /\ res[r].st = "fulfilled"
                 /\ \E t \in 1..Len(tasks) :
                       tasks[t].e = r /\ tasks[t].pc = "await_res"
       /\ lastDisp'.end = "done" =>
             /\ lastDisp'.st = "fulfilled"
             /\ \E t \in 1..Len(tasks) :
                   /\ tasks[t].pc = "disposing"
                   /\ cache'[tasks[t].key] = 0
       /\ \A k \in Keys :
             (cache[k] # 0 /\ res[cache[k]].dcount >= 1
                 /\ cache'[k] # cache[k])
                 => \E t \in 1..Len(tasks) :
                       tasks[t].e = cache[k] /\ tasks[t].pc = "disposing"]_vars

\* ============================= one resolution and its dependencies (JoinSpec)
\* A resolution of a provider of src/src/index.ts with n direct dependencies,
\* none of which has a default key: tasks holds the resolutions in flight,
\* each with the promises of its dependencies (deps), its own state (st), the
\* number of times its resolver was invoked (inv), the states of deps the
\* resolver was invoked at (seen) and the dependency whose rejection it
\* rejected with (reason).
allFulfilled_Any(deps) ==
    deps = <<>> \/ \E i \in 1..Len(deps) : deps[i] = "fulfilled"

\* Promise.all(list.map(async (p) => [p.id, await p()])) fulfils.
allFulfilled(deps) == \A i \in 1..Len(deps) : deps[i] = "fulfilled"

jvars == <<defaultCacheKey, defaultCacheTTL, disposer, res, cache, ops, expect,
           lastCall, lastDone, lastDisp, heap, graph>>

\* The host calls p(): createGroup.build calls every dependency at once, then
\* awaits them all.
JResolve(n) ==
    /\ Len(tasks) < MaxJoins
    /\ tasks' = Append(tasks, [deps |-> [i \in 1..n |-> "pending"],
                               st |-> "gathering", inv |-> 0,
                               seen |-> <<>>, reason |-> 0])
    /\ UNCHANGED jvars

\* The resolution of dependency i settles.
DependencySettles(t, i, ok) ==
    /\ tasks[t].deps[i] = "pending"
    /\ tasks' = [tasks EXCEPT ![t].deps[i] =
                    IF ok THEN "fulfilled" ELSE "rejected"]
    /\ UNCHANGED jvars

\* Promise.all fulfilled: resolver(await container()) invokes the resolver.
ContainerResolved(t) ==
    /\ tasks[t].st = "gathering"
    /\ allFulfilled(tasks[t].deps)
    /\ tasks' = [tasks EXCEPT ![t].st = "running", ![t].inv = @ + 1,
                              ![t].seen = tasks[t].deps]
    /\ UNCHANGED jvars

\* Promise.all rejected with the rejection of dependency i: the await throws,
\* the resolution rejects with it.
ContainerRejected(t, i) ==
    /\ tasks[t].st = "gathering"
    /\ tasks[t].deps[i] = "rejected"
    /\ tasks' = [tasks EXCEPT ![t].st = "rejected", ![t].reason = i]
    /\ UNCHANGED jvars

\* The promise of the resolver settles.
ResolverSettles(t, ok) ==
    /\ tasks[t].st = "running"
    /\ tasks' = [tasks EXCEPT ![t].st =
                    IF ok THEN "fulfilled" ELSE "rejected"]
    /\ UNCHANGED jvars

JNext ==
    \/ \E n \in 0..MaxDeps : JResolve(n)
    \/ \E t \in 1..Len(tasks), i \in 1..MaxDeps, ok \in BOOLEAN :
          i <= Len(tasks[t].deps) /\ DependencySettles(t, i, ok)
    \/ \E t \in 1..Len(tasks) : ContainerResolved(t)
    \/ \E t \in 1..Len(tasks), i \in 1..MaxDeps :
          i <= Len(tasks[t].deps) /\ ContainerRejected(t, i)
    \/ \E t \in 1..Len(tasks), ok \in BOOLEAN : ResolverSettles(t, ok)

JoinSpec == GInit /\ [][JNext]_vars

\* C36: every dependency of a resolution is requested when the resolution
\* starts; the resolver is invoked at most once, and only at a moment when
\* every dependency has fulfilled; a resolution one of whose dependencies
\* rejected never invokes its resolver, and once it has settled it has
\* rejected with the rejection of a dependency.
C36_ResolverAfterAllDependencies ==
    \A t \in 1..Len(tasks) :
        LET r == tasks[t]
        IN  /\ \A i \in 1..Len(r.deps) :
                  r.deps[i] \in {"pending", "fulfilled", "rejected"}
            /\ r.inv <= 1
            /\ r.inv = 1 =>
                  /\ Len(r.seen) = Len(r.deps)
                  /\ \A i \in 1..Len(r.deps) :
                        r.seen[i] = "fulfilled" /\ r.deps[i] = "fulfilled"
            /\ (\E i \in 1..Len(r.deps) : r.deps[i] = "rejected") =>
                  /\ r.inv = 0
                  /\ r.st \in {"gathering", "rejected"}
                  /\ r.st = "rejected" =>
                        r.reason # 0 /\ r.deps[r.reason] = "rejected"
            /\ r.st \in {"running", "fulfilled"} => r.inv = 1

C36_Witness ==
    \E t, u \in 1..Len(tasks) :
        /\ Len(tasks[t].deps) >= 2
        /\ tasks[t].st = "fulfilled"
        /\ tasks[t].inv = 1
        /\ Len(tasks[u].deps) >= 2
        /\ tasks[u].st = "rejected"
        /\ tasks[u].reason # 0
        /\ \E i \in 1..Len(tasks[u].deps) : tasks[u].deps[i] = "pending"

\* ================================ keys and dependencies of a build (KeySpec)
\* The graph of GraphSpec with providers that have a default key besides the
\* ones that have none, and the resolutions of groups of them.

\* p.persisted(cacheKey): a new provider with the id, the dependencies and the
\* resolver of p and the default key.
KPersisted(p, cacheKey) ==
    /\ graph.op = None
    /\ Len(heap) < MaxNodes
    /\ heap' = Append(heap, [id |-> heap[p].id,
                             dependencies |-> unique(heap[p].dependencies),
                             resolver |-> heap[p].resolver,
                             cache |-> [k \in Keys |-> NoInstance],
                             invoked |-> 0,
                             defaultCacheKey |-> persisted(cacheKey)])
    /\ UNCHANGED <<graph, cvars>>

KNext ==
    \/ \E deps \in Lists(Created, MaxNodes), r \in BOOLEAN : Provide(deps, r)
    \/ \E p \in Created, k \in Keys \cup {None} : KPersisted(p, k)
    \/ \E list \in Lists(Created, MaxList), k \in Keys \cup {None} :
          Build(list, k)

KeySpec == GInit /\ [][KNext]_vars

RECURSIVE SumOver(_, _)
SumOver(f, S) ==
    IF S = {} THEN 0
    ELSE LET x == CHOOSE y \in S : TRUE IN f[x] + SumOver(f, S \ {x})

\* C38: in a resolution of a group with key k, a cache entry of a provider
\* changes only under k when the provider is a member of the group, or under
\* the default key of the provider; and a provider with no default key is
\* constructed once as a member, unless the call had a key under which it had
\* an entry, and once more for every construction of a provider that has it as
\* a direct dependency.
C38_KeyAppliesToMembersOnly ==
    [][(graph'.op = "build" /\ graph' # graph) =>
          LET list   == graph'.list
              k      == graph'.extra.key
              member == {list[i] : i \in 1..Len(list)}
              made   == [p \in 1..Len(heap) |->
                            heap'[p].invoked - heap[p].invoked]
          IN  /\ Len(heap') = Len(heap)
              /\ \A p \in 1..Len(heap), key \in Keys :
                    heap'[p].cache[key] # heap[p].cache[key] =>
                        \/ p \in member /\ k # None /\ key = k
                        \/ /\ "defaultCacheKey" \in DOMAIN heap[p]
                           /\ key = heap[p].defaultCacheKey
              /\ \A p \in 1..Len(heap) :
                    "defaultCacheKey" \notin DOMAIN heap[p] =>
                        made[p] =
                            (IF p \in member
                                /\ ~(k # None /\ heap[p].cache[k] # NoInstance)
                             THEN 1 ELSE 0)
                            + SumOver(made,
                                  {q \in 1..Len(heap) :
                                      \E i \in 1..Len(heap[q].dependencies) :
                                          heap[q].dependencies[i] = p})]_vars

C38_Witness ==
    /\ graph.op = "build"
    /\ graph.extra.key = "other"
    /\ \E p, d, q \in 1..Len(heap) :
          /\ "defaultCacheKey" \notin DOMAIN heap[p]
          /\ "defaultCacheKey" \in DOMAIN heap[d]
          /\ heap[d].defaultCacheKey = SINGLETON_CACHE_KEY
          /\ heap[q].dependencies = <<p, d>>
          /\ graph.list = <<p, q>>
          /\ heap[p].invoked = 2
          /\ heap[p].cache["other"] # NoInstance
          /\ heap[d].cache[SINGLETON_CACHE_KEY] # NoInstance
          /\ heap[d].cache["other"] = NoInstance

====
